---------------------------- MODULE Spec2Model ----------------------------
(***************************************************************************)
(* A model of unfazed's informative-site finder                            *)
(* (unfazed/informative_site_finder.py) and of its read collector          *)
(* (unfazed/read_collector.py).                                            *)
(*                                                                         *)
(* Strings that the code inspects character by character (chromosome names,*)
(* REF and ALT alleles) are sequences of one-character strings, so that     *)
(* str.strip, str.lower, len and concatenation are computed, not assumed.  *)
(* Allele balances are ratios of small integers; a comparison of a ratio   *)
(* with a decimal literal is done by cross-multiplication with the literal *)
(* written in hundredths (0.67 is 67/100).                                 *)
(***************************************************************************)
EXTENDS Integers, Sequences, FiniteSets, TLC

VARIABLES
    \* ---- inputs of find() and the module globals it sets
    dnms,             \* the list of de novo variants handed to find()
    vcf,              \* the callset: [prefix, samples, variants]
    search_dist,      \* S
    whole_region,
    threads,
    build,
    MIN_DEPTH,        \* global set by find() from min_depth
    \* ---- the per-DNM path (the loop in find)
    find_i,           \* index of the next DNM of the loop, 1-based
    find_dnms,        \* dnms as annotated in place by the loop
    find_status,      \* "run", "returned" or "raised"
    \* ---- the batch path (find_many)
    fm_status,        \* "start", "scan", "returned" or "raised"
    samples_by_location,
    vars_by_sample,
    chrom_ranges,
    dnms_autophase,
    todo_chroms,      \* chromosomes of `chroms` not yet handed to a worker
    workers,          \* chrom -> [iter, status] for every started worker
    dnms_annotated,   \* what find_many returns
    \* ---- the read collector (collect_reads_snv, collect_reads_sv,
    \*      group_reads_by_haplotype, connect_reads)
    bam,              \* the alignment file: [chrom, reads]
    rc_in,            \* the arguments of the call
    rc_pc,            \* where the call is: "scan", "index", "seed", "connect",
                      \* "returned", "raised"
    bam_iter,         \* what is left of the loop the call is in
    informative_reads,\* {"alt": [...], "ref": [...]} of collect_reads_*
    fetched_reads,
    read_sites,
    site_reads,
    het_site,         \* the loop variable of the het-site loop, <<>> when unbound
    grouped_readsets,
    new_reads,        \* the argument of the running connect_reads
    reads_to_add,     \* its local
    rc_out,           \* what the call returns
    \* ---- calls of the pure functions
    fn_in,            \* the arguments of the call
    fn_out            \* <<>> before the call returns, <<value>> after

finder_in   == <<dnms, vcf, search_dist, whole_region, threads, build, MIN_DEPTH>>
find_vars   == <<find_i, find_dnms, find_status>>
lookup_vars == <<samples_by_location, vars_by_sample, chrom_ranges, dnms_autophase>>
fm_vars     == <<fm_status, lookup_vars, todo_chroms, workers, dnms_annotated>>
fn_vars     == <<fn_in, fn_out>>
rc_inputs   == <<bam, rc_in>>
index_vars  == <<fetched_reads, read_sites, site_reads, het_site>>
group_vars  == <<grouped_readsets, new_reads, reads_to_add>>
rc_vars     == <<rc_inputs, rc_pc, bam_iter, informative_reads, index_vars, group_vars,
                 rc_out>>
vars        == <<finder_in, find_vars, fm_vars, rc_vars, fn_vars>>

-----------------------------------------------------------------------------
(* Bounds of the model.                                                    *)

MaxStart == 11         \* DNM starts of the autophaseable calls are 0..MaxStart
MaxDepth == 7          \* the kid's ref and alt depths of the get_kid_allele calls are 0..MaxDepth
MaxSearchDist == 2     \* search_dist is 1..MaxSearchDist

-----------------------------------------------------------------------------
(* Generic helpers.                                                        *)

Range(s) == {s[i] : i \in DOMAIN s}

Min2(a, b) == IF a <= b THEN a ELSE b
Max2(a, b) == IF a >= b THEN a ELSE b

RECURSIVE SetToSortedSeq(_)
SetToSortedSeq(S) ==
    IF S = {} THEN <<>>
    ELSE LET m == CHOOSE x \in S : \A y \in S : x <= y
         IN  <<m>> \o SetToSortedSeq(S \ {m})

-----------------------------------------------------------------------------
(* Python string operations on sequences of characters.                    *)

\* str.lower(), on the letters chromosome names are written with
lower_char(c) ==
    CASE c = "X" -> "x"
      [] c = "Y" -> "y"
      [] c = "C" -> "c"
      [] c = "H" -> "h"
      [] c = "R" -> "r"
      [] c = "M" -> "m"
      [] c = "T" -> "t"
      [] OTHER   -> c

lower(s) == [i \in DOMAIN s |-> lower_char(s[i])]

\* str.strip("chr") removes every leading and trailing character that is one
\* of c, h, r: it is not the removal of a "chr" prefix.
StripChars == {"c", "h", "r"}

RECURSIVE lstrip_chr(_)
lstrip_chr(s) ==
    IF s # <<>> /\ Head(s) \in StripChars THEN lstrip_chr(Tail(s)) ELSE s

RECURSIVE rstrip_chr(_)
rstrip_chr(s) ==
    IF s # <<>> /\ s[Len(s)] \in StripChars
    THEN rstrip_chr(SubSeq(s, 1, Len(s) - 1))
    ELSE s

strip_chr(s) == rstrip_chr(lstrip_chr(s))

-----------------------------------------------------------------------------
(* Names imported from unfazed/utils.py.                                   *)

HOM_REF == 0
HET     == 1
UNKNOWN == 2
HOM_ALT == 3

Genotypes == {HOM_REF, HET, UNKNOWN, HOM_ALT}

SEX_MALE   == 1
SEX_FEMALE == 2

SEX_KEY == [male |-> SEX_MALE, female |-> SEX_FEMALE]

\* The pseudoautosomal tables, keyed by "x" and "y".  The coordinates are
\* scaled down to the 0..MaxStart range of the model; each table keeps two
\* disjoint closed intervals per chromosome.
ChrX == <<"x">>
ChrY == <<"y">>

grch37_par1 == (ChrX :> <<2, 4>>) @@ (ChrY :> <<2, 4>>)
grch37_par2 == (ChrX :> <<8, 9>>) @@ (ChrY :> <<6, 7>>)
grch38_par1 == (ChrX :> <<3, 5>>) @@ (ChrY :> <<3, 5>>)
grch38_par2 == (ChrX :> <<9, 10>>) @@ (ChrY :> <<7, 8>>)

\* The pedigree handed to find(): two siblings and their parents.
pedigrees ==
    [k \in {"kid1", "kid2"} |->
        [dad |-> "dad", mom |-> "mom",
         sex |-> IF k = "kid1" THEN SEX_MALE ELSE SEX_FEMALE]]

Kids == DOMAIN pedigrees

-----------------------------------------------------------------------------
(* The tunables find() copies into module globals (lines 187-204).  The    *)
(* allele-balance bands are in hundredths.                                 *)

MIN_AB_HOMREF == 0
MAX_AB_HOMREF == 20
MIN_AB_HET    == 20
MAX_AB_HET    == 80
MIN_AB_HOMALT == 80
MAX_AB_HOMALT == 100
MIN_GT_QUAL   == 20

-----------------------------------------------------------------------------
(* Site quality and the kid's allele at a site inside an SV.               *)

\* is_high_quality_site reaches its division with a zero denominator
hq_zero_division(i, ref_depths, alt_depths, genotypes, gt_quals) ==
    /\ genotypes[i] \in {HOM_REF, HOM_ALT, HET}
    /\ ~(gt_quals[i] < MIN_GT_QUAL)
    /\ ~((ref_depths[i] + alt_depths[i]) < MIN_DEPTH)
    /\ ref_depths[i] + alt_depths[i] = 0

is_high_quality_site(i, ref_depths, alt_depths, genotypes, gt_quals) ==
    LET min_ab == CASE genotypes[i] = HOM_REF -> MIN_AB_HOMREF
                    [] genotypes[i] = HOM_ALT -> MIN_AB_HOMALT
                    [] OTHER                  -> MIN_AB_HET
        max_ab == CASE genotypes[i] = HOM_REF -> MAX_AB_HOMREF
                    [] genotypes[i] = HOM_ALT -> MAX_AB_HOMALT
                    [] OTHER                  -> MAX_AB_HET
        total  == ref_depths[i] + alt_depths[i]
    IN  IF genotypes[i] \notin {HOM_REF, HOM_ALT, HET} THEN FALSE
        ELSE IF gt_quals[i] < MIN_GT_QUAL THEN FALSE
        ELSE IF total < MIN_DEPTH THEN FALSE
        ELSE \* min_ab <= alt/total <= max_ab, in hundredths
             /\ min_ab * total <= 100 * alt_depths[i]
             /\ 100 * alt_depths[i] <= max_ab * total

\* The DUP branch of get_kid_allele, entered with a HET kid (lines 98-127).
dup_kid_allele(ref_depths, alt_depths, kid_idx, dad_idx, mom_idx) ==
    LET ak == alt_depths[kid_idx]
        tk == ref_depths[kid_idx] + alt_depths[kid_idx]
        ad == alt_depths[dad_idx]
        td == ref_depths[dad_idx] + alt_depths[dad_idx]
        am == alt_depths[mom_idx]
        tm == ref_depths[mom_idx] + alt_depths[mom_idx]
        \* dad_alt_allele_bal + mom_alt_allele_bal = parents / (td * tm)
        parents == ad * tm + am * td
    IN  IF td = 0 \/ tm = 0 THEN "ZeroDivisionError"
        ELSE IF \/ (parents < td * tm) /\ (2 * ak > tk)
                \/ (parents > td * tm) /\ (2 * ak < tk)
             THEN "None"
        ELSE IF 100 * ak >= 67 * tk THEN "alt_parent"
        ELSE IF 100 * ak <= 33 * tk THEN "ref_parent"
        ELSE "None"

\* get_kid_allele: "alt_parent", "ref_parent", "None" (nothing returned) or
\* "ZeroDivisionError" (a parent without reads at the site).
get_kid_allele(denovo, genotypes, ref_depths, alt_depths, kid_idx, dad_idx, mom_idx) ==
    IF (denovo.vartype = "DEL") /\ (ref_depths[kid_idx] + alt_depths[kid_idx]) > 4
    THEN IF genotypes[kid_idx] = HOM_ALT THEN "ref_parent"
         ELSE IF genotypes[kid_idx] = HOM_REF THEN "alt_parent"
         ELSE "None"
    ELSE IF /\ denovo.vartype = "DUP"
            /\ ref_depths[kid_idx] > 2
            /\ alt_depths[kid_idx] > 2
            /\ (ref_depths[kid_idx] + alt_depths[kid_idx]) > MIN_DEPTH
    THEN IF genotypes[kid_idx] = HET
         THEN dup_kid_allele(ref_depths, alt_depths, kid_idx, dad_idx, mom_idx)
         ELSE "None"
    ELSE "None"

-----------------------------------------------------------------------------
(* autophaseable                                                           *)

\* in_par with the endpoints of the interval left outside it
in_par_open(par, chrom, start) == par[chrom][1] < start /\ start < par[chrom][2]

in_par(par, chrom, start) == par[chrom][1] <= start /\ start <= par[chrom][2]

autophaseable(denovo, peds, bld) ==
    LET chrom == strip_chr(lower(denovo.chrom))
        par1  == IF bld = "37" THEN grch37_par1 ELSE grch38_par1
        par2  == IF bld = "37" THEN grch37_par2 ELSE grch38_par2
    IN  IF chrom \notin {ChrY, ChrX} THEN FALSE
        ELSE IF peds[denovo.kid].sex # SEX_KEY.male THEN FALSE
        ELSE IF bld \notin {"37", "38"} THEN FALSE
        ELSE IF in_par(par1, chrom, denovo.start) \/ in_par(par2, chrom, denovo.start)
             THEN FALSE
        ELSE TRUE


-----------------------------------------------------------------------------
(* The callset (a cyvcf2 VCF) and its records.                             *)

\* Variant.start is the 0-based position, Variant.POS the 1-based one
variant_start(variant) == variant.POS - 1

\* vcf("name:lo-hi"): the records of the named chromosome that overlap
\* [lo, hi] (1-based, closed), in file order
vcf_query(name, lo, hi) ==
    SelectSeq(vcf.variants,
              LAMBDA v : /\ v.CHROM = name
                         /\ v.POS <= hi
                         /\ v.POS + Len(v.REF) - 1 >= lo)

get_prefix == vcf.prefix

\* dict(zip(vcf.samples, range(len(vcf.samples)))), 1-based here
sample_dict ==
    [n \in Range(vcf.samples) |-> CHOOSE i \in DOMAIN vcf.samples : vcf.samples[i] = n]

get_position(denovo, extra, whole) ==
    LET name == get_prefix \o strip_chr(denovo.chrom)
    IN  IF whole
        THEN vcf_query(name, denovo.start - extra, denovo.end + extra)
        ELSE vcf_query(name, denovo.start - extra, denovo.start + extra)
             \o (IF (denovo.end - denovo.start) > extra
                 THEN vcf_query(name, denovo.end - extra, denovo.end + extra)
                 ELSE <<>>)

\* "ignore more complex variants for now"
is_complex(variant) ==
    \/ Len(variant.ALT) # 1
    \/ Len(variant.REF) > 1
    \/ (<<"*">> \in Range(variant.ALT) \/ Len(variant.ALT[1]) > 1)

\* in_small_event with the DNM's start left out of the range
in_small_event_after_start(denovo, variant) ==
    /\ (denovo.end - denovo.start) < 20
    /\ denovo.start < variant_start(variant)
    /\ variant_start(variant) < denovo.end

\* variant.start in range(denovo["start"], denovo["end"]) of a small event
in_small_event(denovo, variant) ==
    /\ (denovo.end - denovo.start) < 20
    /\ denovo.start <= variant_start(variant)
    /\ variant_start(variant) < denovo.end

site_of(variant) ==
    [pos |-> variant_start(variant), ref_allele |-> variant.REF,
     alt_allele |-> variant.ALT[1]]

\* the list as it was appended to
left_as_appended(sites) == sites

\* sorted(sites, key=lambda x: x["pos"]): a stable sort
RECURSIVE insert_by_pos(_, _)
insert_by_pos(sorted, x) ==
    IF sorted = <<>> THEN <<x>>
    ELSE IF sorted[Len(sorted)].pos <= x.pos THEN Append(sorted, x)
    ELSE Append(insert_by_pos(SubSeq(sorted, 1, Len(sorted) - 1), x), sorted[Len(sorted)])

RECURSIVE sorted_by_pos(_)
sorted_by_pos(sites) ==
    IF sites = <<>> THEN <<>>
    ELSE insert_by_pos(sorted_by_pos(SubSeq(sites, 1, Len(sites) - 1)), sites[Len(sites)])

\* both parents pass is_high_quality_site: "True", "False" or the exception
\* of the first division by zero, dad being tested before mom
parents_high_quality(v, dad_idx, mom_idx) ==
    IF hq_zero_division(dad_idx, v.gt_ref_depths, v.gt_alt_depths, v.gt_types, v.gt_quals)
    THEN "ZeroDivisionError"
    ELSE IF ~is_high_quality_site(dad_idx, v.gt_ref_depths, v.gt_alt_depths, v.gt_types, v.gt_quals)
    THEN "False"
    ELSE IF hq_zero_division(mom_idx, v.gt_ref_depths, v.gt_alt_depths, v.gt_types, v.gt_quals)
    THEN "ZeroDivisionError"
    ELSE IF is_high_quality_site(mom_idx, v.gt_ref_depths, v.gt_alt_depths, v.gt_types, v.gt_quals)
    THEN "True"
    ELSE "False"

\* the kid's own test of the standard mode (lines 292-295, 498-501):
\* "True" when the site goes on, "False" when it is skipped
kid_het_high_quality(v, kid_idx) ==
    IF v.gt_types[kid_idx] # HET THEN "False"
    ELSE IF hq_zero_division(kid_idx, v.gt_ref_depths, v.gt_alt_depths, v.gt_types, v.gt_quals)
    THEN "ZeroDivisionError"
    ELSE IF is_high_quality_site(kid_idx, v.gt_ref_depths, v.gt_alt_depths, v.gt_types, v.gt_quals)
    THEN "True"
    ELSE "False"

\* the hemizygous-kid filter (lines 324-337, 528-539): TRUE when the site is kept
unique_allele(genotypes, kid_idx, dad_idx, mom_idx) ==
    LET parent_gts == {genotypes[dad_idx], genotypes[mom_idx]}
    IN  IF genotypes[kid_idx] \in {HOM_ALT, HOM_REF}
        THEN ~(/\ HET \in parent_gts
               /\ (HOM_ALT \in parent_gts \/ HOM_REF \in parent_gts)
               /\ \E parent_gt \in parent_gts :
                     parent_gt \in {HOM_ALT, HOM_REF} /\ genotypes[kid_idx] = parent_gt)
        ELSE TRUE

-----------------------------------------------------------------------------
(* The per-DNM path: the loop of find (lines 213-344).                     *)

\* lines 307-320: <<alt_parent, ref_parent>>, or <<>> when the site is skipped
find_parents(dad_gt, mom_gt, dad, mom) ==
    IF dad_gt \in {HET, HOM_ALT} /\ mom_gt = HOM_REF THEN <<dad, mom>>
    ELSE IF mom_gt \in {HET, HOM_ALT} /\ dad_gt = HOM_REF THEN <<mom, dad>>
    ELSE IF mom_gt = HET /\ dad_gt = HOM_ALT THEN <<dad, mom>>
    ELSE IF dad_gt = HET /\ mom_gt = HOM_ALT THEN <<mom, dad>>
    ELSE <<>>

\* the male chrX test of find (lines 246-250)
male_chrX(denovo, variant) ==
    variant.CHROM = <<"X">> /\ pedigrees[denovo.kid].sex = SEX_KEY.male

\* One pass of the body of the variant loop (lines 238-339): the het site
\* and the candidate it appends (each a list of 0 or 1), and whether it raised.
find_variant(denovo, v, whole, kid_idx, dad_idx, mom_idx) ==
    LET out(h, c, r) == [het |-> h, cand |-> c, raised |-> r]
        hetq == IF v.gt_types[kid_idx] = HET
                THEN parents_high_quality(v, dad_idx, mom_idx) ELSE "False"
        het  == IF hetq = "True" THEN <<site_of(v)>> ELSE <<>>
        sv_mode == whole /\ denovo.vartype # ""
        kid_allele == IF sv_mode
                      THEN get_kid_allele(denovo, v.gt_types, v.gt_ref_depths,
                                          v.gt_alt_depths, kid_idx, dad_idx, mom_idx)
                      ELSE ""
        kidq == IF sv_mode
                THEN (CASE kid_allele = "ZeroDivisionError" -> "ZeroDivisionError"
                        [] kid_allele = "None" -> "False"
                        [] OTHER -> "True")
                ELSE kid_het_high_quality(v, kid_idx)
        parq == parents_high_quality(v, dad_idx, mom_idx)
        parents == find_parents(v.gt_types[dad_idx], v.gt_types[mom_idx],
                                pedigrees[denovo.kid].dad, pedigrees[denovo.kid].mom)
        candidate == [pos |-> variant_start(v), ref_allele |-> v.REF,
                      alt_allele |-> v.ALT[1], kid_allele |-> kid_allele,
                      alt_parent |-> parents[1], ref_parent |-> parents[2]]
    IN  IF is_complex(v) THEN out(<<>>, <<>>, FALSE)
        ELSE IF male_chrX(denovo, v) THEN out(<<>>, <<>>, FALSE)
        ELSE IF in_small_event(denovo, v) THEN out(<<>>, <<>>, FALSE)
        ELSE IF hetq = "ZeroDivisionError" THEN out(<<>>, <<>>, TRUE)
        ELSE IF kidq = "ZeroDivisionError" THEN out(het, <<>>, TRUE)
        ELSE IF kidq = "False" THEN out(het, <<>>, FALSE)
        ELSE IF parq = "ZeroDivisionError" THEN out(het, <<>>, TRUE)
        ELSE IF parq = "False" THEN out(het, <<>>, FALSE)
        ELSE IF parents = <<>> THEN out(het, <<>>, FALSE)
        ELSE IF ~unique_allele(v.gt_types, kid_idx, dad_idx, mom_idx)
             THEN out(het, <<>>, FALSE)
        ELSE out(het, <<candidate>>, FALSE)

\* the variant loop over get_position, from its n-th variant on
RECURSIVE find_variants(_, _, _, _, _)
find_variants(denovo, stream, whole, n, acc) ==
    IF n > Len(stream) \/ acc.raised THEN acc
    ELSE LET r == find_variant(denovo, stream[n], whole,
                               sample_dict[denovo.kid],
                               sample_dict[pedigrees[denovo.kid].dad],
                               sample_dict[pedigrees[denovo.kid].mom])
         IN  find_variants(denovo, stream, whole, n + 1,
                           [candidate_sites |-> acc.candidate_sites \o r.cand,
                            het_sites       |-> acc.het_sites \o r.het,
                            raised          |-> r.raised])

\* a member of the trio is not a sample of the callset
family_missing(kid) ==
    \E sample_id \in {kid, pedigrees[kid].dad, pedigrees[kid].mom} :
        sample_id \notin DOMAIN sample_dict

\* One iteration of "for i, denovo in enumerate(dnms)".
find_iteration ==
    /\ find_status = "run"
    /\ find_i <= Len(find_dnms)
    /\ LET denovo == find_dnms[find_i]
           acc == find_variants(denovo, get_position(denovo, search_dist, whole_region),
                                whole_region, 1,
                                [candidate_sites |-> <<>>, het_sites |-> <<>>,
                                 raised |-> FALSE])
       IN  IF autophaseable(denovo, pedigrees, build) \/ family_missing(denovo.kid)
           THEN /\ find_i' = find_i + 1
                /\ UNCHANGED <<find_dnms, find_status>>
           ELSE IF acc.raised
           THEN /\ find_status' = "raised"
                /\ UNCHANGED <<find_i, find_dnms>>
           ELSE /\ find_dnms' =
                      [find_dnms EXCEPT ![find_i] =
                          [denovo EXCEPT
                              !.candidate_sites = sorted_by_pos(acc.candidate_sites),
                              !.het_sites = sorted_by_pos(acc.het_sites),
                              !.keys = {"candidate_sites", "het_sites"}]]
                /\ find_i' = find_i + 1
                /\ UNCHANGED find_status
    /\ UNCHANGED <<finder_in, fm_vars, rc_vars, fn_vars>>

\* "return dnms" after the loop
find_return ==
    /\ find_status = "run"
    /\ find_i > Len(find_dnms)
    /\ find_status' = "returned"
    /\ UNCHANGED <<finder_in, find_i, find_dnms, fm_vars, rc_vars, fn_vars>>


-----------------------------------------------------------------------------
(* Python dicts keep their insertion order: a dict is a sequence of        *)
(* [key, val] entries with distinct keys.                                  *)

dict_has(d, k) == \E i \in DOMAIN d : d[i].key = k
dict_index(d, k) == CHOOSE i \in DOMAIN d : d[i].key = k
dict_get(d, k) == d[dict_index(d, k)].val
dict_put(d, k, v) ==
    IF dict_has(d, k) THEN [d EXCEPT ![dict_index(d, k)].val = v]
    ELSE Append(d, [key |-> k, val |-> v])
dict_keys(d) == [i \in DOMAIN d |-> d[i].key]

-----------------------------------------------------------------------------
(* The batch path: create_lookups (lines 347-396).                         *)

\* the body of "for denovo in dnms" for one DNM that is not auto-phaseable
lookups_add(lk, denovo) ==
    LET chrom  == denovo.chrom
        start  == denovo.start
        end    == denovo.end
        sample == denovo.kid
        \* chrom_ranges
        cr0 == IF ~dict_has(lk.chrom_ranges, chrom)
               THEN dict_put(lk.chrom_ranges, chrom, <<start, end>>)
               ELSE lk.chrom_ranges
        r0  == dict_get(cr0, chrom)
        r1  == IF start < r0[1] THEN <<start, r0[2]>> ELSE r0
        r2  == IF end > r1[2] THEN <<r1[1], end>> ELSE r1
        \* vars_by_sample[sample][chrom][start].append(denovo)
        v0  == IF ~dict_has(lk.vars_by_sample, sample)
               THEN dict_put(lk.vars_by_sample, sample, <<>>)
               ELSE lk.vars_by_sample
        vs0 == dict_get(v0, sample)
        vs1 == IF ~dict_has(vs0, chrom) THEN dict_put(vs0, chrom, <<>>) ELSE vs0
        vc0 == dict_get(vs1, chrom)
        vc1 == IF ~dict_has(vc0, start) THEN dict_put(vc0, start, <<>>) ELSE vc0
        vc2 == dict_put(vc1, start, Append(dict_get(vc1, start), denovo))
        \* samples_by_location[chrom][start].append(sample), and [end] of a long one
        s0  == IF ~dict_has(lk.samples_by_location, chrom)
               THEN dict_put(lk.samples_by_location, chrom, <<>>)
               ELSE lk.samples_by_location
        sc0 == dict_get(s0, chrom)
        sc1 == IF ~dict_has(sc0, start) THEN dict_put(sc0, start, <<>>) ELSE sc0
        sc2 == dict_put(sc1, start, Append(dict_get(sc1, start), sample))
        sc3 == IF (end - start) > 2 /\ ~dict_has(sc2, end)
               THEN dict_put(sc2, end, <<>>) ELSE sc2
        sc4 == IF (end - start) > 2
               THEN dict_put(sc3, end, Append(dict_get(sc3, end), sample))
               ELSE sc3
    IN  [samples_by_location |-> dict_put(s0, chrom, sc4),
         vars_by_sample      |-> dict_put(v0, sample, dict_put(vs1, chrom, vc2)),
         chrom_ranges        |-> dict_put(cr0, chrom, r2),
         dnms_autophase      |-> lk.dnms_autophase,
         dnms_nonautophase   |-> Append(lk.dnms_nonautophase, denovo)]

RECURSIVE create_lookups_from(_, _, _, _)
create_lookups_from(ds, peds, bld, lk) ==
    IF ds = <<>> THEN lk
    ELSE create_lookups_from(
            Tail(ds), peds, bld,
            IF autophaseable(Head(ds), peds, bld)
            THEN [lk EXCEPT !.dnms_autophase = Append(@, Head(ds))]
            ELSE lookups_add(lk, Head(ds)))

create_lookups(ds, peds, bld) ==
    create_lookups_from(ds, peds, bld,
        [samples_by_location |-> <<>>, vars_by_sample |-> <<>>, chrom_ranges |-> <<>>,
         dnms_autophase |-> <<>>, dnms_nonautophase |-> <<>>])

-----------------------------------------------------------------------------
(* get_close_vars (lines 399-420): the keys [sample, chrom, position] of   *)
(* the DNMs near pos, or the KeyError of a failed lookup.                  *)

lookup_3(vbs, sample, chrom, loc) ==
    IF  /\ dict_has(vbs, sample)
        /\ dict_has(dict_get(vbs, sample), chrom)
        /\ dict_has(dict_get(dict_get(vbs, sample), chrom), loc)
    THEN [found |-> TRUE, val |-> dict_get(dict_get(dict_get(vbs, sample), chrom), loc)]
    ELSE [found |-> FALSE, val |-> <<>>]

\* whole_region = False: the keys of one dn_loc
close_keys_at(chrom, pos, entry, dist) ==
    IF (entry.key - dist) <= pos /\ pos <= (entry.key + dist)
    THEN [i \in DOMAIN entry.val |-> <<entry.val[i], chrom, entry.key>>]
    ELSE <<>>

\* whole_region = True: the keys of one close_sample of one dn_loc
close_keys_of(chrom, pos, denovos, sample, dist) ==
    LET near == SelectSeq(denovos,
                    LAMBDA d : (d.start - dist) <= pos /\ pos <= (d.end + dist))
    IN  [i \in DOMAIN near |-> <<sample, chrom, near[i].start>>]

RECURSIVE close_keys_samples(_, _, _, _, _, _, _, _)
close_keys_samples(chrom, pos, loc, samples, n, vbs, dist, acc) ==
    IF n > Len(samples) \/ acc.raised THEN acc
    ELSE LET got == lookup_3(vbs, samples[n], chrom, loc)
         IN  close_keys_samples(chrom, pos, loc, samples, n + 1, vbs, dist,
                IF got.found
                THEN [keys |-> acc.keys \o close_keys_of(chrom, pos, got.val, samples[n], dist),
                      raised |-> FALSE]
                ELSE [keys |-> acc.keys, raised |-> TRUE])

RECURSIVE close_keys_locs(_, _, _, _, _, _, _, _)
close_keys_locs(chrom, pos, locs, n, vbs, dist, whole, acc) ==
    IF n > Len(locs) \/ acc.raised THEN acc
    ELSE close_keys_locs(chrom, pos, locs, n + 1, vbs, dist, whole,
            IF ~whole
            THEN [keys |-> acc.keys \o close_keys_at(chrom, pos, locs[n], dist),
                  raised |-> FALSE]
            ELSE close_keys_samples(chrom, pos, locs[n].key, locs[n].val, 1, vbs, dist, acc))

get_close_vars(chrom, pos, sbl, vbs, dist, whole) ==
    IF ~dict_has(sbl, chrom) THEN [keys |-> <<>>, raised |-> FALSE]
    ELSE close_keys_locs(chrom, pos, dict_get(sbl, chrom), 1, vbs, dist, whole,
                         [keys |-> <<>>, raised |-> FALSE])

-----------------------------------------------------------------------------
(* add_good_candidate_variant (lines 442-543).                             *)

\* add_parents with the parents of its third rule exchanged
add_parents_third_swapped(dad_gt, mom_gt, dad, mom) ==
    IF dad_gt \in {HET, HOM_ALT} /\ mom_gt = HOM_REF THEN <<dad, mom>>
    ELSE IF mom_gt \in {HET, HOM_ALT} /\ dad_gt = HOM_REF THEN <<mom, dad>>
    ELSE IF mom_gt = HET /\ dad_gt = HOM_ALT THEN <<mom, dad>>
    ELSE IF dad_gt = HET /\ mom_gt = HOM_ALT THEN <<mom, dad>>
    ELSE <<>>

\* lines 511-524: <<alt_parent, ref_parent>>, or <<>> when the site is skipped
add_parents(dad_gt, mom_gt, dad, mom) ==
    IF dad_gt \in {HET, HOM_ALT} /\ mom_gt = HOM_REF THEN <<dad, mom>>
    ELSE IF mom_gt \in {HET, HOM_ALT} /\ dad_gt = HOM_REF THEN <<mom, dad>>
    ELSE IF mom_gt = HET /\ dad_gt = HOM_ALT THEN <<dad, mom>>
    ELSE IF dad_gt = HET /\ mom_gt = HOM_ALT THEN <<mom, dad>>
    ELSE <<>>

append_site(denovo, key, site) ==
    IF key = "het_sites"
    THEN [denovo EXCEPT !.het_sites = Append(@, site), !.keys = @ \cup {key}]
    ELSE [denovo EXCEPT !.candidate_sites = Append(@, site), !.keys = @ \cup {key}]

\* One pass of the body of "for i, denovo in enumerate(...)" (lines 455-542):
\* the DNM with what the pass appended to it, and whether the pass raised.
add_variant(denovo, v, whole, bld, kid_idx, dad_idx, mom_idx) ==
    LET out(d, r) == [denovo |-> d, raised |-> r]
        hetq == IF v.gt_types[kid_idx] = HET
                THEN parents_high_quality(v, dad_idx, mom_idx) ELSE "False"
        with_het == IF hetq = "True" THEN append_site(denovo, "het_sites", site_of(v))
                    ELSE denovo
        sv_mode == whole /\ denovo.vartype # ""
        kid_allele == IF sv_mode
                      THEN get_kid_allele(denovo, v.gt_types, v.gt_ref_depths,
                                          v.gt_alt_depths, kid_idx, dad_idx, mom_idx)
                      ELSE ""
        kidq == IF sv_mode
                THEN (CASE kid_allele = "ZeroDivisionError" -> "ZeroDivisionError"
                        [] kid_allele = "None" -> "False"
                        [] OTHER -> "True")
                ELSE kid_het_high_quality(v, kid_idx)
        parq == parents_high_quality(v, dad_idx, mom_idx)
        parents == add_parents(v.gt_types[dad_idx], v.gt_types[mom_idx],
                               pedigrees[denovo.kid].dad, pedigrees[denovo.kid].mom)
        candidate == [pos |-> variant_start(v), ref_allele |-> v.REF,
                      alt_allele |-> v.ALT[1], kid_allele |-> kid_allele,
                      alt_parent |-> parents[1], ref_parent |-> parents[2]]
    IN  IF autophaseable(denovo, pedigrees, bld) THEN out(denovo, FALSE)
        ELSE IF in_small_event(denovo, v) THEN out(denovo, FALSE)
        ELSE IF hetq = "ZeroDivisionError" THEN out(denovo, TRUE)
        ELSE IF kidq = "ZeroDivisionError" THEN out(with_het, TRUE)
        ELSE IF kidq = "False" THEN out(with_het, FALSE)
        ELSE IF parq = "ZeroDivisionError" THEN out(with_het, TRUE)
        ELSE IF parq = "False" THEN out(with_het, FALSE)
        ELSE IF parents = <<>> THEN out(with_het, FALSE)
        ELSE IF ~unique_allele(v.gt_types, kid_idx, dad_idx, mom_idx)
             THEN out(with_het, FALSE)
        ELSE out(append_site(with_het, "candidate_sites", candidate), FALSE)

RECURSIVE add_variant_each(_, _, _, _, _, _)
add_variant_each(denovos, n, v, whole, bld, raised) ==
    IF n > Len(denovos) \/ raised THEN [denovos |-> denovos, raised |-> raised]
    ELSE LET kid == denovos[n].kid
             r == add_variant(denovos[n], v, whole, bld, sample_dict[kid],
                              sample_dict[pedigrees[kid].dad],
                              sample_dict[pedigrees[kid].mom])
         IN  add_variant_each([denovos EXCEPT ![n] = r.denovo], n + 1, v, whole, bld,
                              r.raised)

add_good_candidate_variant(v, vbs, dn_key, whole, bld) ==
    LET kid   == dn_key[1]
        chrom == dn_key[2]
        pos   == dn_key[3]
        got   == lookup_3(vbs, kid, chrom, pos)
        r     == add_variant_each(got.val, 1, v, whole, bld, FALSE)
        by_chrom == dict_get(vbs, kid)
    IN  IF family_missing(kid) THEN [vars_by_sample |-> vbs, raised |-> FALSE]
        ELSE IF ~got.found THEN [vars_by_sample |-> vbs, raised |-> FALSE]
        ELSE [vars_by_sample |->
                  dict_put(vbs, kid,
                      dict_put(by_chrom, chrom,
                          dict_put(dict_get(by_chrom, chrom), pos, r.denovos))),
              raised |-> r.raised]

-----------------------------------------------------------------------------
(* multithread_find_many (lines 547-598), one variant of vcf_iter at a time*)

worker_stream(chrom, chrom_range, dist) ==
    vcf_query(get_prefix \o strip_chr(chrom), chrom_range[1] - dist, chrom_range[2] + dist)

RECURSIVE add_to_keys(_, _, _, _, _, _)
add_to_keys(v, keys, n, whole, bld, acc) ==
    IF n > Len(keys) \/ acc.raised THEN acc
    ELSE add_to_keys(v, keys, n + 1, whole, bld,
                     add_good_candidate_variant(v, acc.vars_by_sample, keys[n], whole, bld))

\* the body of "for variant in vcf_iter"
scan_variant(v, sbl, vbs, dist, whole, bld) ==
    LET close == get_close_vars(v.CHROM, v.POS, sbl, vbs, dist, whole)
    IN  IF is_complex(v) THEN [vars_by_sample |-> vbs, raised |-> FALSE]
        ELSE IF close.raised THEN [vars_by_sample |-> vbs, raised |-> TRUE]
        ELSE add_to_keys(v, close.keys, 1, whole, bld,
                         [vars_by_sample |-> vbs, raised |-> FALSE])

-----------------------------------------------------------------------------
(* find_many (lines 601-661).                                              *)

RECURSIVE concat(_)
concat(seqs) == IF seqs = <<>> THEN <<>> ELSE Head(seqs) \o concat(Tail(seqs))

\* lines 652-659: the lists a DNM carries are sorted
sort_sites(denovo) ==
    [denovo EXCEPT !.candidate_sites = sorted_by_pos(@), !.het_sites = sorted_by_pos(@)]

\* vars_by_sample after the loops of lines 648-660
sorted_lookup(vbs) ==
    [s \in DOMAIN vbs |->
        [key |-> vbs[s].key,
         val |-> [c \in DOMAIN vbs[s].val |->
                    [key |-> vbs[s].val[c].key,
                     val |-> [p \in DOMAIN vbs[s].val[c].val |->
                                [key |-> vbs[s].val[c].val[p].key,
                                 val |-> [i \in DOMAIN vbs[s].val[c].val[p].val |->
                                            sort_sites(vbs[s].val[c].val[p].val[i])]]]]]]]

\* the DNMs of vars_by_sample in the order of the loops of lines 648-651
all_denovos(vbs) ==
    concat([s \in DOMAIN vbs |->
        concat([c \in DOMAIN vbs[s].val |->
            concat([p \in DOMAIN vbs[s].val[c].val |-> vbs[s].val[c].val[p].val])])])

running_workers == {c \in DOMAIN workers : workers[c].status = "running"}

\* lines 608-611
find_many_start ==
    /\ find_status # "run"
    /\ fm_status = "start"
    /\ LET lk == create_lookups(dnms, pedigrees, build)
       IN  /\ samples_by_location' = lk.samples_by_location
           /\ vars_by_sample' = lk.vars_by_sample
           /\ chrom_ranges' = lk.chrom_ranges
           /\ dnms_autophase' = lk.dnms_autophase
           /\ todo_chroms' = {d.chrom : d \in Range(lk.dnms_nonautophase)}
    /\ fm_status' = "scan"
    /\ UNCHANGED <<finder_in, find_vars, workers, dnms_annotated, rc_vars, fn_vars>>

\* One turn of "for chrom in chroms": with threads = 1 the call of
\* multithread_find_many, which runs before the next turn; otherwise its
\* submission to the pool of `threads` threads.  The worker opens the
\* callset and queries its region.
start_worker(chrom) ==
    /\ fm_status = "scan"
    /\ chrom \in todo_chroms
    /\ Cardinality(running_workers) < threads
    /\ LET stream == worker_stream(chrom, dict_get(chrom_ranges, chrom), search_dist)
       IN  workers' = workers @@
              (chrom :> [iter |-> stream,
                         status |-> IF stream = <<>> THEN "done" ELSE "running"])
    /\ todo_chroms' = todo_chroms \ {chrom}
    /\ UNCHANGED <<finder_in, find_vars, fm_status, lookup_vars, dnms_annotated,
                   rc_vars, fn_vars>>

\* One turn of "for variant in vcf_iter" in the worker of chrom.  An
\* exception ends the worker; with threads = 1 it leaves find_many too,
\* otherwise it stays in the worker's future.
worker_step(chrom) ==
    /\ fm_status = "scan"
    /\ chrom \in DOMAIN workers
    /\ workers[chrom].status = "running"
    /\ LET r == scan_variant(Head(workers[chrom].iter), samples_by_location,
                             vars_by_sample, search_dist, whole_region, build)
           rest == Tail(workers[chrom].iter)
       IN  /\ vars_by_sample' = r.vars_by_sample
           /\ workers' = [workers EXCEPT ![chrom] =
                 [iter |-> rest,
                  status |-> IF r.raised THEN "raised"
                             ELSE IF rest = <<>> THEN "done" ELSE "running"]]
           /\ fm_status' = IF r.raised /\ threads = 1 THEN "raised" ELSE fm_status
    /\ UNCHANGED <<finder_in, find_vars, samples_by_location, chrom_ranges,
                   dnms_autophase, todo_chroms, dnms_annotated, rc_vars, fn_vars>>

\* lines 644-661: wait(futures), sort, return
find_many_return ==
    /\ fm_status = "scan"
    /\ todo_chroms = {}
    /\ running_workers = {}
    /\ vars_by_sample' = sorted_lookup(vars_by_sample)
    /\ dnms_annotated' = all_denovos(sorted_lookup(vars_by_sample)) \o dnms_autophase
    /\ fm_status' = "returned"
    /\ UNCHANGED <<finder_in, find_vars, samples_by_location, chrom_ranges,
                   dnms_autophase, todo_chroms, workers, rc_vars, fn_vars>>

NextFinder ==
    \/ find_iteration
    \/ find_return
    \/ find_many_start
    \/ \E chrom \in todo_chroms : start_worker(chrom)
    \/ \E chrom \in DOMAIN workers : worker_step(chrom)
    \/ find_many_return

-----------------------------------------------------------------------------
(* read_collector.py.  An alignment is a record of the pysam attributes    *)
(* the code reads; the alignment file is the sequence of its alignments in *)
(* file order, under the chromosome name the file uses.                    *)

MIN_MAPQ == 1
READLEN == 151
SPLITTER_ERR_MARGIN == 5
EXTENDED_RB_READ_GOAL == 100

\* None in read.get_reference_positions(full_length=True): a query base that
\* is aligned to no reference position (soft clip, insertion)
NoPos == -2

\* False as the value of get_allele_at
NoAllele == ""

\* the position new_reads gives to the reads of the de novo variant
SeedPos == -1

\* lines 38-52.  The test "not read" is for None, which bamfile.mate never
\* returns: it returns an alignment or raises ValueError.
goodread(read) ==
    ~ ( \/ read.is_qcfail
        \/ read.is_unmapped
        \/ read.is_duplicate
        \/ read.mapping_quality < MIN_MAPQ
        \/ read.is_secondary
        \/ read.is_supplementary
        \/ read.mate_is_unmapped
        \/ read.next_reference_id # read.reference_id )

\* list.index(x): the first place of x, counted from 1
index_of(s, x) == CHOOSE i \in DOMAIN s : s[i] = x /\ \A j \in 1..(i - 1) : s[j] # x

\* lines 55-67
get_allele_at(read, mate, pos) ==
    IF pos \in Range(read.ref_positions)
    THEN read.query_sequence[index_of(read.ref_positions, pos)]
    ELSE IF pos \in Range(mate.ref_positions)
    THEN mate.query_sequence[index_of(mate.ref_positions, pos)]
    ELSE NoAllele

\* bamfile.mate(read): the other alignment of the pair when the file holds it
has_mate(read) ==
    \E r \in Range(bam.reads) :
        r.query_name = read.query_name /\ r.is_read1 # read.is_read1

bamfile_mate(read) ==
    CHOOSE r \in Range(bam.reads) :
        r.query_name = read.query_name /\ r.is_read1 # read.is_read1

\* bamfile.fetch(chrom, lo, hi) on the chromosome name the file knows: the
\* alignments overlapping the half-open interval [lo, hi), in file order
fetch(lo, hi) ==
    SelectSeq(bam.reads, LAMBDA r : r.reference_start < hi /\ r.reference_end > lo)

\* "chr" in chrom
contains_chr(s) ==
    \E i \in 1..(Len(s) - 2) : SubSeq(s, i, i + 2) = <<"c", "h", "r">>

\* chrom.replace("chr", "")
RECURSIVE replace_chr(_)
replace_chr(s) ==
    IF Len(s) < 3 THEN s
    ELSE IF SubSeq(s, 1, 3) = <<"c", "h", "r">>
    THEN replace_chr(SubSeq(s, 4, Len(s)))
    ELSE <<Head(s)>> \o replace_chr(Tail(s))

\* lines 147-151, 245-249: the name tried after fetch raised ValueError
other_chrom(chrom) ==
    IF contains_chr(chrom) THEN strip_chr(chrom) ELSE <<"c", "h", "r">> \o chrom

\* lines 309-313
other_chrom_sv(chrom) ==
    IF contains_chr(chrom) THEN replace_chr(chrom) ELSE <<"c", "h", "r">> \o chrom

\* try fetch(chrom, lo, hi) except ValueError: fetch(other, lo2, hi2); the
\* value is <<>> with raised when the file knows neither name
fetch_retry(chrom, other, lo, hi, lo2, hi2) ==
    IF chrom = bam.chrom THEN [raised |-> FALSE, reads |-> fetch(lo, hi)]
    ELSE IF other = bam.chrom THEN [raised |-> FALSE, reads |-> fetch(lo2, hi2)]
    ELSE [raised |-> TRUE, reads |-> <<>>]

\* site_searcher.binary_search(start, end, het_sites): the het sites whose
\* position lies in [start, end], in the order of het_sites
binary_search(start, end, sites) ==
    SelectSeq(sites, LAMBDA s : start <= s.pos /\ s.pos <= end)

\* d[k].append(x) after "if k not in d: d[k] = []"
dict_append(d, k, x) ==
    IF dict_has(d, k) THEN [d EXCEPT ![dict_index(d, k)].val = Append(@, x)]
    ELSE Append(d, [key |-> k, val |-> <<x>>])

\* "if k not in d: d[k] = []"
dict_default(d, k) ==
    IF dict_has(d, k) THEN d ELSE Append(d, [key |-> k, val |-> <<>>])

\* the number of None in a list of reference positions
count_none(positions) == Cardinality({i \in DOMAIN positions : positions[i] = NoPos})

-----------------------------------------------------------------------------
(* group_reads_by_haplotype: the index of the het sites (lines 138-180).   *)

\* lines 165-168
mates_overlap(read, mate) ==
    \/ mate.reference_start <= read.reference_start
       /\ read.reference_start <= mate.reference_end
    \/ mate.reference_start <= read.reference_end
       /\ read.reference_end <= mate.reference_end

\* lines 155-180 for the i-th alignment (counted from 0) fetched at a site;
\* idx holds fetched_reads, read_sites and site_reads
index_read(idx, site, i, read) ==
    IF i > EXTENDED_RB_READ_GOAL \/ ~goodread(read) \/ ~has_mate(read) THEN idx
    ELSE LET mate == bamfile_mate(read) IN
         IF ~goodread(mate) \/ mates_overlap(read, mate) THEN idx
         ELSE [idx EXCEPT
                  !.fetched_reads = dict_put(@, read.query_name, <<read, mate>>),
                  !.read_sites = dict_append(@, read.query_name, site),
                  !.site_reads = dict_append(@, site.pos, read.query_name)]

RECURSIVE index_reads(_, _, _, _)
index_reads(idx, site, stream, n) ==
    IF n > Len(stream) THEN idx
    ELSE index_reads(index_read(idx, site, n - 1, stream[n]), site, stream, n + 1)

\* group_reads_by_haplotype is entered: lines 138-140
group_begin ==
    /\ rc_pc = "group"
    /\ rc_pc' = "index"
    /\ bam_iter' = rc_in.het_sites
    /\ fetched_reads' = <<>> /\ read_sites' = <<>> /\ site_reads' = <<>>
    /\ UNCHANGED <<finder_in, find_vars, fm_vars, fn_vars, rc_inputs,
                   informative_reads, het_site, group_vars, rc_out>>

\* one turn of the loop of lines 141-180
index_site ==
    /\ rc_pc = "index" /\ bam_iter # <<>>
    /\ LET site == Head(bam_iter)
           got == fetch_retry(rc_in.region.chrom, other_chrom(rc_in.region.chrom),
                              site.pos, site.pos + 1, site.pos, site.pos + 1)
           idx == index_reads([fetched_reads |-> fetched_reads,
                               read_sites |-> read_sites,
                               site_reads |-> site_reads], site, got.reads, 1)
       IN  /\ het_site' = site
           /\ IF got.raised
              THEN /\ rc_pc' = "raised" /\ rc_out' = "ValueError"
                   /\ UNCHANGED <<bam_iter, fetched_reads, read_sites, site_reads>>
              ELSE /\ fetched_reads' = idx.fetched_reads
                   /\ read_sites' = idx.read_sites
                   /\ site_reads' = idx.site_reads
                   /\ bam_iter' = Tail(bam_iter)
                   /\ UNCHANGED <<rc_pc, rc_out>>
    /\ UNCHANGED <<finder_in, find_vars, fm_vars, fn_vars, rc_inputs,
                   informative_reads, group_vars>>

\* lines 181-182: the loop of the seeds is entered
seeds_begin ==
    /\ rc_pc = "index" /\ bam_iter = <<>>
    /\ rc_pc' = "seed"
    /\ bam_iter' = informative_reads.alt
    /\ grouped_readsets' = [ref |-> {}, alt |-> {}]
    /\ new_reads' = [alt |-> <<>>, ref |-> <<>>]
    /\ UNCHANGED <<finder_in, find_vars, fm_vars, fn_vars, rc_inputs,
                   informative_reads, index_vars, reads_to_add, rc_out>>

-----------------------------------------------------------------------------
(* The seeds (lines 183-206).                                              *)

\* lines 202-204: every matching site is added to read_sites of the read, and
\* the read to site_reads under the position het_site holds, which is the
\* last het site of the loop of lines 141-180
RECURSIVE register_matches(_, _, _, _)
register_matches(idx, name, matches, n) ==
    IF n > Len(matches) THEN idx
    ELSE register_matches(
             [idx EXCEPT !.read_sites = dict_append(@, name, matches[n]),
                         !.site_reads = dict_append(@, het_site.pos, name)],
             name, matches, n + 1)

\* lines 189-206 without the entry of fetched_reads
seed_index_unfetched(idx, read) ==
    IF ~has_mate(read) THEN idx
    ELSE LET match_sites == binary_search(read.reference_start, read.reference_end,
                                          rc_in.het_sites)
         IN  IF Len(match_sites) <= 0 THEN idx
             ELSE register_matches(
                      [idx EXCEPT !.read_sites = dict_default(@, read.query_name),
                                  !.site_reads = dict_default(@, het_site.pos)],
                      read.query_name, match_sites, 1)

\* lines 189-206 for one seed
seed_index(idx, read) ==
    IF ~has_mate(read) THEN idx
    ELSE LET fetched == [idx EXCEPT !.fetched_reads =
                             dict_put(@, read.query_name, <<read, bamfile_mate(read)>>)]
             match_sites == binary_search(read.reference_start, read.reference_end,
                                          rc_in.het_sites)
         IN  IF Len(match_sites) <= 0 THEN fetched
             ELSE register_matches(
                      [fetched EXCEPT !.read_sites = dict_default(@, read.query_name),
                                      !.site_reads = dict_default(@, het_site.pos)],
                      read.query_name, match_sites, 1)

\* one turn of the loop of lines 183-206
seed_read ==
    /\ rc_pc = "seed" /\ bam_iter # <<>>
    /\ LET read == Head(bam_iter)
           idx  == seed_index([fetched_reads |-> fetched_reads,
                               read_sites |-> read_sites,
                               site_reads |-> site_reads], read)
       IN  /\ grouped_readsets' =
                  [grouped_readsets EXCEPT !.alt = @ \cup {read.query_name}]
           /\ new_reads' =
                  [new_reads EXCEPT !.alt = Append(@, <<read.query_name, SeedPos>>)]
           /\ fetched_reads' = idx.fetched_reads
           /\ read_sites' = idx.read_sites
           /\ site_reads' = idx.site_reads
    /\ bam_iter' = Tail(bam_iter)
    /\ UNCHANGED <<finder_in, find_vars, fm_vars, fn_vars, rc_inputs, rc_pc,
                   informative_reads, het_site, reads_to_add, rc_out>>

-----------------------------------------------------------------------------
(* connect_reads (lines 70-130).  A call walks new_reads; its entries are  *)
(* <<haplotype, readname, found_pos>> in the order of the two loops.       *)

\* the haplotype handed back unchanged
keep_haplotype(haplotype) == haplotype

other_haplotype(haplotype) == IF haplotype = "alt" THEN "ref" ELSE "alt"

tagged(haplotype, entries) ==
    [i \in DOMAIN entries |-> <<haplotype, entries[i][1], entries[i][2]>>]

\* the dict of line 182 lists alt first, the dict of line 73 ref first
entries_of_seeds(nr) == tagged("alt", nr.alt) \o tagged("ref", nr.ref)
entries_of_added(nr) == tagged("ref", nr.ref) \o tagged("alt", nr.alt)

\* lines 89-94
non_finder_allele(finder_allele, site) ==
    IF finder_allele = site.ref_allele THEN site.alt_allele
    ELSE IF finder_allele = site.alt_allele THEN site.ref_allele
    ELSE NoAllele

\* the check of line 100 made against the ref set alone
unassigned_ref_only(grouped, name) == name \notin grouped.ref

\* line 100: the read is in neither set
unassigned(grouped, name) == name \notin grouped.ref /\ name \notin grouped.alt

\* lines 100-123 for one read name of site_reads[site.pos]; st holds
\* grouped_readsets, reads_to_add and whether a KeyError was raised
connect_assign(st, haplotype, finder_allele, site, site_readname) ==
    IF ~unassigned(st.grouped, site_readname) THEN st
    ELSE LET pair == dict_get(fetched_reads, site_readname)
             new_read_allele == get_allele_at(pair[1], pair[2], site.pos)
             other == other_haplotype(haplotype)
         IN  IF new_read_allele = NoAllele THEN st
             ELSE IF new_read_allele = finder_allele
             THEN [st EXCEPT !.to_add[haplotype] = Append(@, <<site_readname, site.pos>>),
                             !.grouped[haplotype] = @ \cup {site_readname}]
             ELSE IF new_read_allele = non_finder_allele(finder_allele, site)
             THEN [st EXCEPT !.to_add[other] = Append(@, <<site_readname, site.pos>>),
                             !.grouped[other] = @ \cup {site_readname}]
             ELSE st

\* the statements F that follow find the dicts as the statements before
\* them left them: e is worked out once and F reads the result
then(e, F(_)) == CHOOSE out \in {F(st) : st \in {e}} : TRUE

RECURSIVE connect_assign_each(_, _, _, _, _, _)
connect_assign_each(st, haplotype, finder_allele, site, names, n) ==
    IF n > Len(names) THEN st
    ELSE then(st, LAMBDA s :
             connect_assign_each(connect_assign(s, haplotype, finder_allele, site, names[n]),
                                 haplotype, finder_allele, site, names, n + 1))

\* lines 84-123 for one site of read_sites[readname]
connect_site(st, haplotype, readname, found_pos, site) ==
    IF site.pos = found_pos THEN st
    ELSE LET pair == dict_get(fetched_reads, readname)
             finder_allele == get_allele_at(pair[1], pair[2], site.pos)
         IN  IF finder_allele = NoAllele
                \/ non_finder_allele(finder_allele, site) = NoAllele
             THEN st
             ELSE IF ~dict_has(site_reads, site.pos)
             THEN [st EXCEPT !.raised = TRUE]
             ELSE connect_assign_each(st, haplotype, finder_allele, site,
                                      dict_get(site_reads, site.pos), 1)

RECURSIVE connect_sites(_, _, _, _, _, _)
connect_sites(st, haplotype, readname, found_pos, sites, n) ==
    IF n > Len(sites) THEN st
    ELSE then(st, LAMBDA s :
             IF s.raised THEN s
             ELSE connect_sites(connect_site(s, haplotype, readname, found_pos, sites[n]),
                                haplotype, readname, found_pos, sites, n + 1))

\* lines 77-123 for one entry of new_reads
connect_entry(st, haplotype, readname, found_pos) ==
    IF ~dict_has(read_sites, readname) THEN st
    ELSE connect_sites(st, haplotype, readname, found_pos,
                       dict_get(read_sites, readname), 1)

\* line 208, and line 73 of the first call
connect_begin ==
    /\ rc_pc = "seed" /\ bam_iter = <<>>
    /\ rc_pc' = "connect"
    /\ bam_iter' = entries_of_seeds(new_reads)
    /\ reads_to_add' = [ref |-> <<>>, alt |-> <<>>]
    /\ UNCHANGED <<finder_in, find_vars, fm_vars, fn_vars, rc_inputs,
                   informative_reads, index_vars, grouped_readsets, new_reads, rc_out>>

\* one turn of the loop of lines 76-123
connect_read ==
    /\ rc_pc = "connect" /\ bam_iter # <<>>
    /\ LET entry == Head(bam_iter)
           st == connect_entry([grouped |-> grouped_readsets, to_add |-> reads_to_add,
                                raised |-> FALSE], entry[1], entry[2], entry[3])
       IN  /\ grouped_readsets' = st.grouped
           /\ reads_to_add' = st.to_add
           /\ IF st.raised
              THEN rc_pc' = "raised" /\ rc_out' = "KeyError" /\ UNCHANGED bam_iter
              ELSE bam_iter' = Tail(bam_iter) /\ UNCHANGED <<rc_pc, rc_out>>
    /\ UNCHANGED <<finder_in, find_vars, fm_vars, fn_vars, rc_inputs,
                   informative_reads, index_vars, new_reads>>

\* lines 125-128: the call made with the reads the finished call added
connect_recurse ==
    /\ rc_pc = "connect" /\ bam_iter = <<>>
    /\ Len(reads_to_add.alt) + Len(reads_to_add.ref) > 0
    /\ new_reads' = reads_to_add
    /\ bam_iter' = entries_of_added(reads_to_add)
    /\ reads_to_add' = [ref |-> <<>>, alt |-> <<>>]
    /\ UNCHANGED <<finder_in, find_vars, fm_vars, fn_vars, rc_inputs, rc_pc,
                   informative_reads, index_vars, grouped_readsets, rc_out>>

\* the orders a set can be walked in
orders(S) ==
    { s \in [1..Cardinality(S) -> S] : \A i, j \in DOMAIN s : i # j => s[i] # s[j] }

\* lines 214-219 for the names of one haplotype, walked in the order names
RECURSIVE extended_reads(_, _)
extended_reads(names, n) ==
    IF n > Len(names) THEN <<>>
    ELSE IF ~dict_has(fetched_reads, names[n]) THEN extended_reads(names, n + 1)
    ELSE dict_get(fetched_reads, names[n]) \o extended_reads(names, n + 1)

\* lines 125, 130 and 211-220: no call follows, the sets become the lists of
\* the pairs.  The order a Python set of strings is walked in is not fixed.
group_return ==
    /\ rc_pc = "connect" /\ bam_iter = <<>>
    /\ Len(reads_to_add.alt) + Len(reads_to_add.ref) = 0
    /\ \E ref_names \in orders(grouped_readsets.ref),
          alt_names \in orders(grouped_readsets.alt) :
           rc_out' = [ref |-> extended_reads(ref_names, 1),
                      alt |-> extended_reads(alt_names, 1)]
    /\ rc_pc' = "returned"
    /\ UNCHANGED <<finder_in, find_vars, fm_vars, fn_vars, rc_inputs, bam_iter,
                   informative_reads, index_vars, group_vars>>

NextGrouper ==
    \/ group_begin
    \/ index_site
    \/ seeds_begin
    \/ seed_read
    \/ connect_begin
    \/ connect_read
    \/ connect_recurse
    \/ group_return

-----------------------------------------------------------------------------
(* collect_reads_snv (lines 223-280).  The file is opened and              *)
(* concordant_upper_len is given by the caller.                            *)

\* lines 240-251
snv_begin ==
    /\ rc_pc = "snv"
    /\ LET position == rc_in.region.start
           got == fetch_retry(rc_in.region.chrom, other_chrom(rc_in.region.chrom),
                              position - 1, position + 1, position, position + 1)
       IN  IF got.raised
           THEN /\ rc_pc' = "raised" /\ rc_out' = "ValueError"
                /\ UNCHANGED <<bam_iter, informative_reads>>
           ELSE /\ rc_pc' = "snv_scan"
                /\ bam_iter' = got.reads
                /\ informative_reads' = [alt |-> <<>>, ref |-> <<>>]
                /\ UNCHANGED rc_out
    /\ UNCHANGED <<finder_in, find_vars, fm_vars, fn_vars, rc_inputs, index_vars,
                   group_vars>>

\* lines 253-276 keeping the reads of the alt allele alone
snv_informative_alt_only(inf, read) ==
    IF ~goodread(read) \/ ~has_mate(read) THEN inf
    ELSE LET mate == bamfile_mate(read)
             read_allele == get_allele_at(read, mate, rc_in.region.start)
         IN  IF ~goodread(mate) THEN inf
             ELSE IF count_none(read.ref_positions) > 5
                     \/ count_none(mate.ref_positions) > 5
             THEN inf
             ELSE IF read_allele = rc_in.alt
             THEN [inf EXCEPT !.alt = @ \o <<read, mate>>]
             ELSE inf

\* lines 253-276 for one alignment
snv_informative(inf, read) ==
    IF ~goodread(read) \/ ~has_mate(read) THEN inf
    ELSE LET mate == bamfile_mate(read)
             read_allele == get_allele_at(read, mate, rc_in.region.start)
         IN  IF ~goodread(mate) THEN inf
             ELSE IF count_none(read.ref_positions) > 5
                     \/ count_none(mate.ref_positions) > 5
             THEN inf
             ELSE IF read_allele = rc_in.ref
             THEN [inf EXCEPT !.ref = @ \o <<read, mate>>]
             ELSE IF read_allele = rc_in.alt
             THEN [inf EXCEPT !.alt = @ \o <<read, mate>>]
             ELSE inf

\* one turn of the loop of lines 252-276
snv_read ==
    /\ rc_pc = "snv_scan" /\ bam_iter # <<>>
    /\ informative_reads' = snv_informative(informative_reads, Head(bam_iter))
    /\ bam_iter' = Tail(bam_iter)
    /\ UNCHANGED <<finder_in, find_vars, fm_vars, fn_vars, rc_inputs, rc_pc,
                   index_vars, group_vars, rc_out>>

\* lines 277-280: the reads are returned as collected, or handed to
\* group_reads_by_haplotype, whose value is returned
snv_end ==
    /\ rc_pc = "snv_scan" /\ bam_iter = <<>>
    /\ IF rc_in.no_extended
       THEN rc_pc' = "returned" /\ rc_out' = informative_reads
       ELSE rc_pc' = "group" /\ UNCHANGED rc_out
    /\ UNCHANGED <<finder_in, find_vars, fm_vars, fn_vars, rc_inputs, bam_iter,
                   informative_reads, index_vars, group_vars>>

-----------------------------------------------------------------------------
(* collect_reads_sv (lines 283-384).  informative_reads.alt is             *)
(* supporting_reads; its ref list is the empty list of line 380.           *)

\* lines 302-317
sv_fetch(position) ==
    fetch_retry(rc_in.region.chrom, other_chrom_sv(rc_in.region.chrom),
                Max2(0, position - rc_in.concordant_upper_len),
                position + rc_in.concordant_upper_len,
                Max2(0, position - rc_in.concordant_upper_len),
                position + rc_in.concordant_upper_len)

\* line 327
insert_size(read) ==
    IF read.tlen >= READLEN * 2 THEN read.tlen - READLEN * 2 ELSE READLEN * 2 - read.tlen

\* lines 334-335
splitter_near(read, position) ==
    \/ position - SPLITTER_ERR_MARGIN <= read.reference_start
       /\ read.reference_start <= position + SPLITTER_ERR_MARGIN
    \/ position - SPLITTER_ERR_MARGIN <= read.reference_end
       /\ read.reference_end <= position + SPLITTER_ERR_MARGIN

\* lines 339-340, with var_len of line 299; 0.7 < var_len / insert_size < 1.3
\* is compared after multiplying by 10 * insert_size, which is positive here
discordant(read) ==
    LET var_len == IF rc_in.region.end >= rc_in.region.start
                   THEN rc_in.region.end - rc_in.region.start
                   ELSE rc_in.region.start - rc_in.region.end
    IN  /\ insert_size(read) > rc_in.concordant_upper_len
        /\ 7 * insert_size(read) < 10 * var_len
        /\ 10 * var_len < 13 * insert_size(read)

\* lines 346-356
near_breakpoints(read, mate) ==
    LET left  == Min2(mate.reference_start, read.reference_start)
        right == Max2(mate.reference_start, read.reference_start)
        wiggle == rc_in.concordant_upper_len
    IN  /\ rc_in.region.start - wiggle < left /\ left < rc_in.region.start + wiggle
        /\ rc_in.region.end - wiggle < right /\ right < rc_in.region.end + wiggle

\* lines 362-377; region_pos is counted from 0 as in the source
clipped_at(read, position) ==
    LET ref_positions == read.ref_positions
        found == IF position \in Range(ref_positions) THEN position
                 ELSE IF position - 1 \in Range(ref_positions) THEN position - 1
                 ELSE IF position + 1 \in Range(ref_positions) THEN position + 1
                 ELSE NoPos
    IN  /\ found # NoPos
        /\ LET region_pos == index_of(ref_positions, found) - 1
               before_positions == {ref_positions[i] : i \in 1..(region_pos - 1)}
               after_positions == {ref_positions[i] : i \in (region_pos + 2)..Len(ref_positions)}
           IN  /\ ~(region_pos < 2 \/ region_pos > Len(ref_positions) - 4)
               /\ \/ before_positions = {NoPos}
                  \/ after_positions = {NoPos}

\* lines 319-379 for one alignment
sv_supporting(supporting_reads, read, position) ==
    IF ~goodread(read) \/ ~has_mate(read) THEN supporting_reads
    ELSE LET mate == bamfile_mate(read) IN
         IF ~goodread(mate) THEN supporting_reads
         ELSE IF read.has_SA
         THEN IF splitter_near(read, position)
              THEN supporting_reads \o <<read, mate>>
              ELSE supporting_reads
         ELSE IF discordant(read)
         THEN IF near_breakpoints(read, mate)
              THEN supporting_reads \o <<mate, read>>
              ELSE supporting_reads
         ELSE IF clipped_at(read, position)
         THEN supporting_reads \o <<mate, read>>
         ELSE supporting_reads

\* lines 298-317 for region["start"], and line 380
sv_begin ==
    /\ rc_pc = "sv"
    /\ LET got == sv_fetch(rc_in.region.start)
       IN  IF got.raised
           THEN /\ rc_pc' = "raised" /\ rc_out' = "ValueError"
                /\ UNCHANGED <<bam_iter, informative_reads>>
           ELSE /\ rc_pc' = "sv_scan_start"
                /\ bam_iter' = got.reads
                /\ informative_reads' = [alt |-> <<>>, ref |-> <<>>]
                /\ UNCHANGED rc_out
    /\ UNCHANGED <<finder_in, find_vars, fm_vars, fn_vars, rc_inputs, index_vars,
                   group_vars>>

\* one turn of the loop of lines 318-379
sv_read ==
    /\ rc_pc \in {"sv_scan_start", "sv_scan_end"} /\ bam_iter # <<>>
    /\ LET position == IF rc_pc = "sv_scan_start" THEN rc_in.region.start
                       ELSE rc_in.region.end
       IN  informative_reads' =
               [informative_reads EXCEPT !.alt = sv_supporting(@, Head(bam_iter), position)]
    /\ bam_iter' = Tail(bam_iter)
    /\ UNCHANGED <<finder_in, find_vars, fm_vars, fn_vars, rc_inputs, rc_pc,
                   index_vars, group_vars, rc_out>>

\* lines 300-317 for region["end"]
sv_second_position ==
    /\ rc_pc = "sv_scan_start" /\ bam_iter = <<>>
    /\ LET got == sv_fetch(rc_in.region.end)
       IN  IF got.raised
           THEN rc_pc' = "raised" /\ rc_out' = "ValueError" /\ UNCHANGED bam_iter
           ELSE rc_pc' = "sv_scan_end" /\ bam_iter' = got.reads /\ UNCHANGED rc_out
    /\ UNCHANGED <<finder_in, find_vars, fm_vars, fn_vars, rc_inputs,
                   informative_reads, index_vars, group_vars>>

\* lines 380-384
sv_end ==
    /\ rc_pc = "sv_scan_end" /\ bam_iter = <<>>
    /\ IF rc_in.no_extended
       THEN rc_pc' = "returned" /\ rc_out' = [alt |-> informative_reads.alt, ref |-> <<>>]
       ELSE rc_pc' = "group" /\ UNCHANGED rc_out
    /\ UNCHANGED <<finder_in, find_vars, fm_vars, fn_vars, rc_inputs, bam_iter,
                   informative_reads, index_vars, group_vars>>

NextCollector ==
    \/ snv_begin
    \/ snv_read
    \/ snv_end
    \/ sv_begin
    \/ sv_read
    \/ sv_second_position
    \/ sv_end
    \/ NextGrouper

-----------------------------------------------------------------------------
(* Values of the variables of a part of the program that is not running.   *)

FinderIdle ==
    /\ dnms = <<>> /\ vcf = [prefix |-> <<>>, samples |-> <<>>, variants |-> <<>>]
    /\ search_dist = 0 /\ whole_region = FALSE /\ threads = 1 /\ build = "38"
    /\ find_i = 1 /\ find_dnms = <<>> /\ find_status = "returned"
    /\ fm_status = "returned"
    /\ samples_by_location = <<>> /\ vars_by_sample = <<>> /\ chrom_ranges = <<>>
    /\ dnms_autophase = <<>> /\ todo_chroms = {} /\ workers = <<>>
    /\ dnms_annotated = <<>>

ReadsIdle ==
    /\ bam = <<>> /\ rc_in = <<>> /\ rc_pc = "returned" /\ bam_iter = <<>>
    /\ informative_reads = <<>> /\ fetched_reads = <<>> /\ read_sites = <<>>
    /\ site_reads = <<>> /\ het_site = <<>> /\ grouped_readsets = <<>>
    /\ new_reads = <<>> /\ reads_to_add = <<>> /\ rc_out = <<>>

CallsIdle == fn_in = <<>> /\ fn_out = <<>>

-----------------------------------------------------------------------------
(* Runs of the finder.  Each run takes one input through both paths: find  *)
(* with multithread_proc_min above len(dnms) (the loop), then find with    *)
(* multithread_proc_min at most len(dnms) (find_many), each on its own     *)
(* copy of the DNMs.                                                       *)

Chr1 == <<"1">>
ChrXUpper == <<"X">>
ChrPrefix == <<"c", "h", "r">>

\* idx is the place of the DNM in the list handed to find; vartype "" stands
\* for a DNM without the key; keys are the annotation keys the DNM carries
make_denovo(idx, kid, chrom, start, end, vartype) ==
    [idx |-> idx, kid |-> kid, chrom |-> chrom, start |-> start, end |-> end,
     vartype |-> vartype, keys |-> {}, candidate_sites |-> <<>>, het_sites |-> <<>>]

FinderStart ==
    /\ find_i = 1 /\ find_dnms = dnms /\ find_status = "run"
    /\ fm_status = "start"
    /\ samples_by_location = <<>> /\ vars_by_sample = <<>> /\ chrom_ranges = <<>>
    /\ dnms_autophase = <<>> /\ todo_chroms = {} /\ workers = <<>>
    /\ dnms_annotated = <<>>

\* ---- runs that vary the places of the DNMs: a callset of the samples kid1,
\* kid2, dad, mom with one informative SNV (both kids HET, dad HOM_ALT, mom
\* HOM_REF, all of high quality) at every position of chromosomes 1 and X
Starts == {3, 6}
Lengths == {0, 1, 3}
MaxPos == 10 + MaxSearchDist

informative_snv(chrom, pos) ==
    [CHROM |-> chrom, POS |-> pos, REF |-> <<"A">>, ALT |-> << <<"G">> >>,
     gt_types |-> <<HET, HET, HOM_ALT, HOM_REF>>,
     gt_ref_depths |-> <<5, 5, 0, 10>>,
     gt_alt_depths |-> <<5, 5, 10, 0>>,
     gt_quals |-> <<30, 30, 30, 30>>]

dense_callset(prefix) ==
    [prefix |-> prefix,
     samples |-> <<"kid1", "kid2", "dad", "mom">>,
     variants |-> [i \in 1..MaxPos |-> informative_snv(prefix \o Chr1, i)]
                  \o [i \in 1..MaxPos |-> informative_snv(prefix \o ChrXUpper, i)]]

PlacedDnm == [kid : Kids, chrom : {Chr1, ChrXUpper}, start : Starts, length : Lengths]

placed(idx, p) == make_denovo(idx, p.kid, p.chrom, p.start, p.start + p.length, "")

PlacedDnmLists ==
    {<<placed(1, p)>> : p \in PlacedDnm}
    \cup {<<placed(1, p), placed(2, q)>> : p \in PlacedDnm, q \in PlacedDnm}

InitFinder ==
    /\ dnms \in PlacedDnmLists
    /\ vcf \in {dense_callset(<<>>), dense_callset(ChrPrefix)}
    /\ search_dist \in 1..MaxSearchDist
    /\ whole_region \in BOOLEAN
    /\ threads \in {1, 2}
    /\ build = "38"
    /\ MIN_DEPTH = 10
    /\ FinderStart
    /\ ReadsIdle /\ CallsIdle

SpecFinder == InitFinder /\ [][NextFinder]_vars

\* ---- runs whose DNMs name chromosome 1 with and without the chr prefix,
\* on the same callsets
NamedDnm == [kid : Kids, chrom : {Chr1, ChrPrefix \o Chr1}, start : Starts, length : {0, 3}]

NamedDnmLists ==
    {<<placed(1, p)>> : p \in NamedDnm}
    \cup {<<placed(1, p), placed(2, q)>> : p \in NamedDnm, q \in NamedDnm}

InitChromNames ==
    /\ dnms \in NamedDnmLists
    /\ vcf \in {dense_callset(<<>>), dense_callset(ChrPrefix)}
    /\ search_dist \in 1..MaxSearchDist
    /\ whole_region \in BOOLEAN
    /\ threads \in {1, 2}
    /\ build = "38"
    /\ MIN_DEPTH = 10
    /\ FinderStart
    /\ ReadsIdle /\ CallsIdle

SpecChromNames == InitChromNames /\ [][NextFinder]_vars

\* ---- runs with one DNM of kid1 on chromosome 1 whose length reaches the
\* 20 of the small-event rule and search distances of half that and more, on
\* a callset with the informative SNV at every position the windows reach
WindowStart == 11
WindowLengths == {3, 12, 19, 20, 24}
WindowDists == {10, 12}

wide_callset ==
    [prefix |-> <<>>,
     samples |-> <<"kid1", "kid2", "dad", "mom">>,
     variants |-> [i \in 1..(WindowStart + 24 + 12) |-> informative_snv(Chr1, i)]]

InitWindows ==
    /\ \E length \in WindowLengths :
           dnms = <<make_denovo(1, "kid1", Chr1, WindowStart, WindowStart + length, "")>>
    /\ vcf = wide_callset
    /\ search_dist \in WindowDists
    /\ whole_region \in BOOLEAN
    /\ threads \in {1, 2}
    /\ build = "38"
    /\ MIN_DEPTH = 10
    /\ FinderStart
    /\ ReadsIdle /\ CallsIdle

SpecWindows == InitWindows /\ [][NextFinder]_vars

\* ---- runs that vary the record of one site: a callset of the samples kid1,
\* dad, mom with one record at POS 5, inside the DNM 1:3-23 of kid1
SiteDepths == { <<10, 0>>, <<5, 5>>, <<0, 10>>, <<3, 8>>, <<0, 0>> }
SiteQuals == { <<30, 30, 30>>, <<10, 30, 30>>, <<30, 30, 10>> }

site_record(ref, alt, gts, kid, dad, mom, quals) ==
    [CHROM |-> Chr1, POS |-> 5, REF |-> ref, ALT |-> alt,
     gt_types |-> gts,
     gt_ref_depths |-> <<kid[1], dad[1], mom[1]>>,
     gt_alt_depths |-> <<kid[2], dad[2], mom[2]>>,
     gt_quals |-> quals]

SnvRecords ==
    { site_record(<<"A">>, << <<"G">> >>, <<gk, gd, gm>>, kid, dad, mom, <<30, 30, 30>>) :
        gk \in Genotypes, gd \in Genotypes, gm \in Genotypes,
        kid \in SiteDepths, dad \in SiteDepths \ {<<3, 8>>}, mom \in SiteDepths \ {<<3, 8>>} }

LowQualRecords ==
    { site_record(<<"A">>, << <<"G">> >>, <<HET, gd, gm>>, <<5, 5>>, <<0, 10>>, <<10, 0>>, q) :
        gd \in {HET, HOM_ALT}, gm \in {HOM_REF}, q \in SiteQuals }

ComplexRecords ==
    { site_record(ra[1], ra[2], <<HET, HOM_ALT, HOM_REF>>, <<5, 5>>, <<0, 10>>, <<10, 0>>,
                  <<30, 30, 30>>) :
        ra \in { << <<"A">>, << <<"G">>, <<"T">> >> >>,
                 << <<"A", "C">>, << <<"G">> >> >>,
                 << <<"A">>, << <<"*">> >> >>,
                 << <<"A">>, << <<"G", "T">> >> >>,
                 << <<"A">>, <<>> >> } }

InitSites ==
    /\ \E vartype \in {"", "DEL", "DUP"} :
          dnms = <<make_denovo(1, "kid1", Chr1, 3, 23, vartype)>>
    /\ \E rec \in SnvRecords \cup LowQualRecords \cup ComplexRecords :
          vcf = [prefix |-> <<>>, samples |-> <<"kid1", "dad", "mom">>,
                 variants |-> <<rec>>]
    /\ search_dist = MaxSearchDist
    /\ whole_region \in BOOLEAN
    /\ threads \in {1, 2}
    /\ build = "38"
    /\ MIN_DEPTH = 10
    /\ FinderStart
    /\ ReadsIdle /\ CallsIdle

SpecSites == InitSites /\ [][NextFinder]_vars

-----------------------------------------------------------------------------
(* Runs of the read collector.  The alignments are named after their pair  *)
(* and written with the reference positions of their bases.                *)

\* an alignment of good flags: reference_start is the first aligned
\* position, reference_end one past the last
aligned(name, first, positions, bases) ==
    LET real == Range(positions) \ {NoPos}
    IN  [query_name |-> name, is_read1 |-> first,
         is_qcfail |-> FALSE, is_unmapped |-> FALSE, is_duplicate |-> FALSE,
         mapping_quality |-> 60, is_secondary |-> FALSE, is_supplementary |-> FALSE,
         mate_is_unmapped |-> FALSE, next_reference_id |-> 0, reference_id |-> 0,
         reference_start |-> CHOOSE p \in real : \A q \in real : p <= q,
         reference_end |-> (CHOOSE p \in real : \A q \in real : p >= q) + 1,
         ref_positions |-> positions, query_sequence |-> bases,
         tlen |-> READLEN * 2 + 3, has_SA |-> FALSE]

het_at(pos) == [pos |-> pos, ref_allele |-> "A", alt_allele |-> "G"]

\* the alleles a read can carry at a het site: ref, alt, neither
HetBases == {"A", "G", "N"}
HetAlleles == {"A", "G"}

ReadsStart(pc) ==
    /\ rc_pc = pc /\ bam_iter = <<>>
    /\ fetched_reads = <<>> /\ read_sites = <<>> /\ site_reads = <<>>
    /\ het_site = <<>> /\ grouped_readsets = <<>>
    /\ new_reads = <<>> /\ reads_to_add = <<>> /\ rc_out = <<>>

BamChroms == {Chr1, ChrPrefix \o Chr1}

\* ---- the pairs of the runs around a de novo SNV at position 1 (C > T),
\* with het sites at 3, 6 and 9
pair_a(dnm, h3, h6) ==
    << aligned("a", TRUE, <<0, 1, 2, 3>>, <<"A", dnm, "A", h3>>),
       aligned("a", FALSE, <<5, 6>>, <<"A", h6>>) >>

pair_b(h3, h6) ==
    << aligned("b", TRUE, <<3, 4>>, <<h3, "A">>),
       aligned("b", FALSE, <<6, 7>>, <<h6, "A">>) >>

pair_c(h6, h9) ==
    << aligned("c", TRUE, <<6, 7>>, <<h6, "A">>),
       aligned("c", FALSE, <<9, 10>>, <<h9, "A">>) >>

\* mates that overlap each other
pair_d ==
    << aligned("d", TRUE, <<2, 3>>, <<"A", "G">>),
       aligned("d", FALSE, <<3, 4>>, <<"G", "A">>) >>

\* a read flagged as a duplicate, with a good mate
pair_e ==
    << [aligned("e", TRUE, <<6, 7>>, <<"G", "A">>) EXCEPT !.is_duplicate = TRUE],
       aligned("e", FALSE, <<9, 10>>, <<"G", "A">>) >>

\* a read whose interval holds the whole of its mate's
pair_w ==
    << aligned("w", TRUE, <<2, 3, 4, 5, 6, 7>>, <<"A", "G", "A", "A", "G", "A">>),
       aligned("w", FALSE, <<4, 5>>, <<"A", "A">>) >>

\* a read whose mate the file does not hold
single_m == << aligned("m", TRUE, <<2, 3>>, <<"A", "G">>) >>

\* a pair with the de novo allele and more than five clipped bases
pair_q ==
    << aligned("q", TRUE, <<NoPos, NoPos, NoPos, NoPos, NoPos, NoPos, 1, 2>>,
               <<"A", "A", "A", "A", "A", "A", "T", "A">>),
       aligned("q", FALSE, <<12, 13>>, <<"A", "A">>) >>

pair_p(dnm, h9) ==
    << aligned("p", TRUE, <<1, 2>>, <<dnm, "A">>),
       aligned("p", FALSE, <<9, 10>>, <<h9, "A">>) >>

PairsA == { pair_a("T", h3, h6) : h3 \in HetBases, h6 \in HetAlleles }
PairsB == { pair_b(h3, h6) : h3 \in HetBases, h6 \in HetAlleles } \cup { <<>> }
PairsC == { pair_c(h6, h9) : h6 \in HetAlleles, h9 \in HetAlleles } \cup { <<>> }

HetSiteLists ==
    { <<>>, <<het_at(3)>>, <<het_at(3), het_at(6)>>, <<het_at(6), het_at(9)>>,
      <<het_at(3), het_at(6), het_at(9)>> }

\* the lists of seeds group_reads_by_haplotype is called with
SeedLists(a) ==
    { <<>>, a, <<a[1]>>, pair_d, single_m, a \o single_m, single_m \o pair_d }

\* group_reads_by_haplotype is called on its own
InitGrouper ==
    /\ FinderIdle /\ CallsIdle
    /\ MIN_DEPTH = 10
    /\ \E a \in PairsA, b \in PairsB, c \in PairsC :
           /\ bam \in [chrom : BamChroms,
                       reads : {a \o b \o c \o pair_d \o pair_e \o single_m}]
           /\ informative_reads \in [alt : SeedLists(a), ref : {<<>>}]
    /\ rc_in \in [kind : {"group"},
                  region : {[chrom |-> Chr1, start |-> 1, end |-> 1]},
                  het_sites : HetSiteLists]
    /\ ReadsStart("group")

SpecGrouper == InitGrouper /\ [][NextGrouper]_vars

\* the same call on fewer files, for the runs that are followed to their
\* end, on files where the pair of overlapping mates is the only one over
\* the het site at 3, and on files with a read that holds its mate
InitClosure ==
    /\ FinderIdle /\ CallsIdle
    /\ MIN_DEPTH = 10
    /\ \/ \E a \in {pair_a("T", "G", h6) : h6 \in {"A", "G"}},
             b \in {pair_b("G", "G"), <<>>}, c \in {pair_c("G", "G"), <<>>} :
              /\ bam \in [chrom : {Chr1},
                          reads : {a \o b \o c \o pair_d \o pair_e \o single_m}]
              /\ informative_reads \in [alt : SeedLists(a), ref : {<<>>}]
       \/ /\ bam \in [chrom : BamChroms,
                       reads : {c \o pair_d \o pair_e : c \in PairsC}]
          /\ informative_reads \in [alt : {pair_d, <<pair_d[1]>>}, ref : {<<>>}]
       \/ /\ bam \in [chrom : BamChroms,
                       reads : {pair_w \o c \o pair_e : c \in PairsC}]
          /\ informative_reads \in [alt : {<<>>, pair_w}, ref : {<<>>}]
    /\ rc_in \in [kind : {"group"},
                  region : {[chrom |-> Chr1, start |-> 1, end |-> 1]},
                  het_sites : HetSiteLists]
    /\ ReadsStart("group")

\* the call runs on: Python takes the next step of a call that has one
SpecGrouperFair == InitClosure /\ [][NextGrouper]_vars /\ WF_vars(NextGrouper)

\* ---- calls of collect_reads_snv for the SNV at position 1
SnvBams ==
    { a \o b \o p \o pair_q \o pair_e :
        a \in { pair_a(dnm, h3, "G") : dnm \in {"T", "C", "N"}, h3 \in HetAlleles },
        b \in { pair_b(h3, "G") : h3 \in HetAlleles } \cup { <<>> },
        p \in { pair_p(dnm, h9) : dnm \in {"T", "C"}, h9 \in HetAlleles } }

InitSnv ==
    /\ bam \in [chrom : BamChroms, reads : SnvBams]
    /\ rc_in \in [kind : {"snv"},
                  region : {[chrom |-> Chr1, start |-> 1, end |-> 1]},
                  ref : {"C"}, alt : {"T"},
                  het_sites : {<<>>, <<het_at(3), het_at(6)>>,
                               <<het_at(3), het_at(6), het_at(9)>>},
                  no_extended : BOOLEAN]
    /\ informative_reads = <<>>
    /\ ReadsStart("snv")

\* ---- calls of collect_reads_sv for a deletion from 10 to 30, with het
\* sites at 12 and 31 and concordant_upper_len 8
SvConcordant == 8

\* a split read that ends at the first breakpoint
pair_split(h12) ==
    << [aligned("s", TRUE, <<10, 11, 12, 13>>, <<"A", "A", h12, "A">>)
            EXCEPT !.has_SA = TRUE],
       aligned("s", FALSE, <<40, 41>>, <<"A", "A">>) >>

\* a split read more than SPLITTER_ERR_MARGIN from both breakpoints, in a
\* pair as far apart as the deletion is long
pair_far ==
    << [aligned("f", TRUE, <<16, 17>>, <<"A", "A">>)
            EXCEPT !.has_SA = TRUE, !.tlen = READLEN * 2 + 20],
       [aligned("f", FALSE, <<30, 31>>, <<"A", "G">>)
            EXCEPT !.tlen = READLEN * 2 + 20] >>

\* a pair as far apart as the deletion is long, one mate at each breakpoint
pair_disc(h12, h31) ==
    << [aligned("x", TRUE, <<9, 10, 11, 12>>, <<"A", "A", "A", h12>>)
            EXCEPT !.tlen = READLEN * 2 + 20],
       [aligned("x", FALSE, <<29, 30, 31, 32>>, <<"A", "A", h31, "A">>)
            EXCEPT !.tlen = READLEN * 2 + 20] >>

\* a read clipped before the first breakpoint
pair_clip(h12) ==
    << aligned("k", TRUE, <<NoPos, NoPos, NoPos, 10, 11, 12, 13, 14>>,
               <<"A", "A", "A", "A", "A", h12, "A", "A">>),
       aligned("k", FALSE, <<50, 51>>, <<"A", "A">>) >>

\* a pair that supports nothing
pair_plain(h12) ==
    << aligned("n", TRUE, <<8, 9, 10, 11, 12, 13>>, <<"A", "A", "A", "A", h12, "A">>),
       aligned("n", FALSE, <<20, 21>>, <<"A", "A">>) >>

SvBams ==
    { s \o f \o x \o k \o n :
        s \in { pair_split("G"), <<>> },
        f \in { pair_far, <<>> },
        x \in { pair_disc(h12, h31) : h12 \in HetAlleles, h31 \in HetAlleles } \cup { <<>> },
        k \in { pair_clip(h12) : h12 \in HetAlleles } \cup { <<>> },
        n \in { pair_plain(h12) : h12 \in HetAlleles } }

InitSv ==
    /\ bam \in [chrom : BamChroms, reads : SvBams]
    /\ rc_in \in [kind : {"sv"},
                  region : {[chrom |-> Chr1, start |-> 10, end |-> 30]},
                  het_sites : {<<>>, <<het_at(12), het_at(31)>>},
                  no_extended : BOOLEAN,
                  concordant_upper_len : {SvConcordant}]
    /\ informative_reads = <<>>
    /\ ReadsStart("sv")

InitCollector ==
    /\ FinderIdle /\ CallsIdle
    /\ MIN_DEPTH = 10
    /\ InitSnv \/ InitSv

SpecCollector == InitCollector /\ [][NextCollector]_vars

-----------------------------------------------------------------------------
(* Calls of autophaseable.                                                 *)

ChromNames ==
    { <<"1">>, <<"c","h","r","1">>,
      <<"X">>, <<"x">>, <<"c","h","r","X">>, <<"c","h","r","x">>, <<"C","H","R","X">>,
      <<"Y">>, <<"y">>, <<"c","h","r","Y">>, <<"M","T">> }

Builds == {"37", "38", "19"}

InitAutophaseable ==
    /\ FinderIdle /\ ReadsIdle
    /\ MIN_DEPTH = 10
    /\ fn_in \in [chrom : ChromNames, start : 0..MaxStart, kid : Kids, build : Builds]
    /\ fn_out = <<>>

call_autophaseable ==
    /\ fn_out = <<>>
    /\ fn_out' = <<autophaseable(fn_in, pedigrees, fn_in.build)>>
    /\ UNCHANGED <<finder_in, find_vars, fm_vars, rc_vars, fn_in>>

NextAutophaseable == call_autophaseable

SpecAutophaseable == InitAutophaseable /\ [][NextAutophaseable]_vars

-----------------------------------------------------------------------------
(* Calls of get_kid_allele.  The VCF columns are kid, dad, mom.            *)

KidDepths == (0..MaxDepth) \X (0..MaxDepth)

\* <<ref_depth, alt_depth>> of a parent
ParentDepths == { <<0, 0>>, <<10, 0>>, <<0, 10>>, <<5, 5>>, <<3, 7>> }

InitKidAllele ==
    /\ FinderIdle /\ ReadsIdle
    /\ MIN_DEPTH = 10
    /\ fn_in \in [vartype : {"DEL", "DUP", "POINT"}, kid_gt : Genotypes,
                  kid : KidDepths, dad : ParentDepths, mom : ParentDepths]
    /\ fn_out = <<>>

call_get_kid_allele ==
    /\ fn_out = <<>>
    /\ LET ref_depths == <<fn_in.kid[1], fn_in.dad[1], fn_in.mom[1]>>
           alt_depths == <<fn_in.kid[2], fn_in.dad[2], fn_in.mom[2]>>
           genotypes  == <<fn_in.kid_gt, HOM_ALT, HOM_REF>>
       IN  fn_out' = <<get_kid_allele(fn_in, genotypes, ref_depths, alt_depths, 1, 2, 3)>>
    /\ UNCHANGED <<finder_in, find_vars, fm_vars, rc_vars, fn_in>>

NextKidAllele == call_get_kid_allele

SpecKidAllele == InitKidAllele /\ [][NextKidAllele]_vars

\* ---- calls of the two functions that compute an allele balance, under a
\* min_depth of 0 and of 10; the sample tested by is_high_quality_site is
\* the dad
MinDepths == {0, 10}

InitAlleleBalance ==
    /\ FinderIdle /\ ReadsIdle
    /\ MIN_DEPTH \in MinDepths
    /\ fn_in \in [vartype : {"DEL", "DUP"}, kid_gt : {HET, HOM_ALT},
                  kid : {<<0, 0>>, <<3, 7>>, <<4, 7>>}, dad : ParentDepths,
                  mom : ParentDepths, dad_gt : Genotypes, dad_qual : {10, 30}]
    /\ fn_out = <<>>

call_is_high_quality_site ==
    /\ fn_out = <<>>
    /\ LET ref_depths == <<fn_in.kid[1], fn_in.dad[1], fn_in.mom[1]>>
           alt_depths == <<fn_in.kid[2], fn_in.dad[2], fn_in.mom[2]>>
           genotypes  == <<fn_in.kid_gt, fn_in.dad_gt, HOM_REF>>
           gt_quals   == <<30, fn_in.dad_qual, 30>>
       IN  fn_out' =
              IF hq_zero_division(2, ref_depths, alt_depths, genotypes, gt_quals)
              THEN <<"ZeroDivisionError">>
              ELSE IF is_high_quality_site(2, ref_depths, alt_depths, genotypes, gt_quals)
              THEN <<"True">>
              ELSE <<"False">>
    /\ UNCHANGED <<finder_in, find_vars, fm_vars, rc_vars, fn_in>>

NextAlleleBalance == call_get_kid_allele \/ call_is_high_quality_site

SpecAlleleBalance == InitAlleleBalance /\ [][NextAlleleBalance]_vars

-----------------------------------------------------------------------------
(* What the claims about the finder read.                                  *)

\* the DNMs as the batch path holds them (also before it returns)
batch_denovos == all_denovos(vars_by_sample)

positions(sites) == {sites[i].pos : i \in DOMAIN sites}

no_position_twice(sites) ==
    \A i, j \in DOMAIN sites : sites[i].pos = sites[j].pos => i = j

both_returned == find_status = "returned" /\ fm_status = "returned"

\* the record of the callset a site of the DNM d was made from
record_at(d, pos) ==
    CHOOSE v \in Range(vcf.variants) :
        v.CHROM = get_prefix \o strip_chr(d.chrom) /\ variant_start(v) = pos

-----------------------------------------------------------------------------
(* C1.  For every list of non-auto-phaseable DNMs, callset, pedigree,      *)
(* search distance and whole_region setting, find_many and the loop of     *)
(* find annotate each DNM with the same candidate_sites and the same       *)
(* het_sites.                                                              *)

C1_PathsAgree ==
    both_returned =>
        \A d \in Range(dnms_annotated) :
            /\ d.candidate_sites = find_dnms[d.idx].candidate_sites
            /\ d.het_sites = find_dnms[d.idx].het_sites

\* the same, for a single female kid's DNM on chromosome 1 of a callset
\* without chr prefix, run on one thread
C1_PathsAgreeSingle ==
    (/\ both_returned
     /\ Len(dnms) = 1 /\ dnms[1].kid = "kid2" /\ dnms[1].chrom = Chr1
     /\ vcf.prefix = <<>> /\ threads = 1)
    => /\ dnms_annotated[1].candidate_sites = find_dnms[1].candidate_sites
       /\ dnms_annotated[1].het_sites = find_dnms[1].het_sites

-----------------------------------------------------------------------------
(* C2.  After the finder runs, in the per-DNM path and in the batch path   *)
(* alike, no DNM whose kid is male has a candidate site taken from an      *)
(* X-chromosome variant.                                                   *)

male_on_X(d) ==
    pedigrees[d.kid].sex = SEX_MALE /\ strip_chr(lower(d.chrom)) = ChrX

C2_NoMaleXCandidate ==
    /\ find_status = "returned" =>
          \A d \in Range(find_dnms) : male_on_X(d) => d.candidate_sites = <<>>
    /\ fm_status = "returned" =>
          \A d \in Range(dnms_annotated) : male_on_X(d) => d.candidate_sites = <<>>

\* the batch path alone, on a callset that names the chromosome "X"
C2_NoMaleXCandidateBatch ==
    (fm_status = "returned" /\ vcf.prefix = <<>>) =>
        \A d \in Range(dnms_annotated) : male_on_X(d) => d.candidate_sites = <<>>

\* the per-DNM path alone
C2_NoMaleXCandidateLoop ==
    find_status = "returned" =>
        \A d \in Range(find_dnms) : male_on_X(d) => d.candidate_sites = <<>>

-----------------------------------------------------------------------------
(* C3.  In the batch path, when no two input DNMs share (kid, chrom,       *)
(* start), a callset variant is appended at most once to the               *)
(* candidate_sites and at most once to the het_sites of any one DNM, for   *)
(* every combination of DNM starts and ends (a DNM whose end equals        *)
(* another DNM's start included).                                          *)

distinct_keys ==
    \A i, j \in DOMAIN dnms :
        (/\ dnms[i].kid = dnms[j].kid
         /\ dnms[i].chrom = dnms[j].chrom
         /\ dnms[i].start = dnms[j].start) => i = j

C3_BatchAppendsOnce ==
    distinct_keys =>
        \A d \in Range(batch_denovos) :
            no_position_twice(d.candidate_sites) /\ no_position_twice(d.het_sites)

-----------------------------------------------------------------------------
(* C7.  The (alt_parent, ref_parent) recorded on an accepted candidate is  *)
(* the pair of the first matching rule: dad in {HET, HOM_ALT} and mom      *)
(* HOM_REF -> (dad, mom); mom in {HET, HOM_ALT} and dad HOM_REF -> (mom,   *)
(* dad); mom HET and dad HOM_ALT -> (dad, mom); dad HET and mom HOM_ALT -> *)
(* (mom, dad); no other combination of the parents' genotypes has a        *)
(* candidate.  So alt_parent and ref_parent are the kid's two parents.     *)

C7_Rule(dad_gt, mom_gt) ==
    CASE dad_gt \in {HET, HOM_ALT} /\ mom_gt = HOM_REF -> <<"dad", "mom">>
      [] mom_gt \in {HET, HOM_ALT} /\ dad_gt = HOM_REF -> <<"mom", "dad">>
      [] mom_gt = HET /\ dad_gt = HOM_ALT              -> <<"dad", "mom">>
      [] dad_gt = HET /\ mom_gt = HOM_ALT              -> <<"mom", "dad">>
      [] OTHER                                         -> <<"none", "none">>

C7_CandidatesOf(d) ==
    \A k \in DOMAIN d.candidate_sites :
        LET c == d.candidate_sites[k]
            v == record_at(d, c.pos)
        IN  /\ <<c.alt_parent, c.ref_parent>> =
                  C7_Rule(v.gt_types[sample_dict["dad"]], v.gt_types[sample_dict["mom"]])
            /\ c.alt_parent # c.ref_parent
            /\ {c.alt_parent, c.ref_parent} = {pedigrees[d.kid].dad, pedigrees[d.kid].mom}

C7_ParentAssignment ==
    /\ \A d \in Range(find_dnms) : C7_CandidatesOf(d)
    /\ \A d \in Range(batch_denovos) : C7_CandidatesOf(d)

\* both paths have recorded a candidate of the third rule (mom HET, dad HOM_ALT)
C7_Witness ==
    /\ both_returned
    /\ vcf.variants[1].gt_types[sample_dict["dad"]] = HOM_ALT
    /\ vcf.variants[1].gt_types[sample_dict["mom"]] = HET
    /\ Len(find_dnms[1].candidate_sites) = 1
    /\ find_dnms[1].candidate_sites[1].alt_parent = "dad"
    /\ Len(dnms_annotated[1].candidate_sites) = 1
    /\ dnms_annotated[1].candidate_sites[1].alt_parent = "dad"

-----------------------------------------------------------------------------
(* C9.  Amended: for every DNM with 0 < end - start < 20, a callset        *)
(* variant at the DNM's start (or anywhere in [start, end)) is never       *)
(* recorded in its candidate_sites or het_sites, while the variants at     *)
(* start - 1 and at end that the path looks at are recorded; in the        *)
(* per-DNM path and in the batch path.                                     *)

small_event(d) == d.end - d.start < 20

C9_NothingInside(d) ==
    \A p \in positions(d.candidate_sites) \cup positions(d.het_sites) :
        ~(d.start <= p /\ p < d.end)

\* the positions start - 1 and end, when among the given records
C9_EdgesRecorded(d, records) ==
    \A v \in records :
        variant_start(v) \in {d.start - 1, d.end} =>
            /\ variant_start(v) \in positions(d.candidate_sites)
            /\ variant_start(v) \in positions(d.het_sites)

\* the records find_many looks at for the DNM d
C9_BatchRecords(d) ==
    {v \in Range(vcf.variants) :
        /\ v.CHROM = d.chrom
        /\ IF whole_region
           THEN d.start - search_dist <= v.POS /\ v.POS <= d.end + search_dist
           ELSE d.start - search_dist <= v.POS /\ v.POS <= d.start + search_dist}

C9_SmallEvent ==
    /\ \A d \in Range(find_dnms) :
          (small_event(d) /\ d.end - d.start > 0) =>
              /\ C9_NothingInside(d)
              /\ (find_status = "returned" /\ d.keys # {} /\ ~male_on_X(d)) =>
                    C9_EdgesRecorded(d, Range(get_position(d, search_dist, whole_region)))
    /\ \A d \in Range(batch_denovos) :
          (small_event(d) /\ d.end - d.start > 0) =>
              /\ C9_NothingInside(d)
              /\ (/\ fm_status = "returned"
                  /\ \A c \in DOMAIN workers : workers[c].status = "done") =>
                    C9_EdgesRecorded(d, C9_BatchRecords(d))

\* The claim as made, for every DNM with end - start < 20: the variant at
\* the DNM's start is never recorded.
C9_StartNeverRecorded ==
    /\ \A d \in Range(find_dnms) :
          small_event(d) =>
              d.start \notin positions(d.candidate_sites) \cup positions(d.het_sites)
    /\ \A d \in Range(batch_denovos) :
          small_event(d) =>
              d.start \notin positions(d.candidate_sites) \cup positions(d.het_sites)

\* both paths have left out the site at the start of the female kid's DNM
\* 1:3-4 and recorded the sites on either side of it
C9_Witness ==
    /\ both_returned
    /\ Len(dnms) = 1
    /\ dnms[1].kid = "kid2" /\ dnms[1].chrom = Chr1
    /\ dnms[1].start = 3 /\ dnms[1].end = 4
    /\ search_dist = 2
    /\ positions(find_dnms[1].candidate_sites) \cap {2, 3, 4} = {2, 4}
    /\ positions(dnms_annotated[1].het_sites) \cap {2, 3, 4} = {2, 4}

-----------------------------------------------------------------------------
(* C8.  autophaseable returns true exactly when the chromosome, written in *)
(* any case and with or without a chr prefix, is x or y, the kid is male,  *)
(* the build is "37" or "38", and start lies outside both pseudoautosomal  *)
(* intervals of that chromosome, the endpoints of an interval being inside *)
(* it; it returns false for any other build.                               *)

XNames == { <<"X">>, <<"x">>, <<"c","h","r","X">>, <<"c","h","r","x">>, <<"C","H","R","X">> }
YNames == { <<"Y">>, <<"y">>, <<"c","h","r","Y">> }

OutsidePar(par, c, start) == start < par[c][1] \/ start > par[c][2]

C8_Expected(d) ==
    LET c == IF d.chrom \in XNames THEN ChrX ELSE ChrY
    IN  /\ d.chrom \in XNames \cup YNames
        /\ pedigrees[d.kid].sex = SEX_MALE
        /\ \/ d.build = "37" /\ OutsidePar(grch37_par1, c, d.start)
                             /\ OutsidePar(grch37_par2, c, d.start)
           \/ d.build = "38" /\ OutsidePar(grch38_par1, c, d.start)
                             /\ OutsidePar(grch38_par2, c, d.start)

C8_AutophaseableExact ==
    fn_out # <<>> => (fn_out[1] <=> C8_Expected(fn_in))

\* a male kid's chrX DNM one past the end of PAR1 is auto-phased ...
C8_Witness ==
    /\ fn_out = <<TRUE>>
    /\ fn_in.chrom = <<"c","h","r","X">> /\ fn_in.kid = "kid1" /\ fn_in.build = "37"
    /\ fn_in.start = grch37_par1[ChrX][2] + 1

-----------------------------------------------------------------------------
(* C10.  For a DUP DNM whose kid is HET with ref_depth > 2, alt_depth > 2  *)
(* and ref_depth + alt_depth >= min_depth (equality included),             *)
(* get_kid_allele returns: nothing when (b_d + b_m < 1 and b_k > 0.5) or   *)
(* (b_d + b_m > 1 and b_k < 0.5); otherwise alt_parent when b_k >= 0.67;   *)
(* otherwise ref_parent when b_k <= 0.33; otherwise nothing.  A DUP DNM    *)
(* failing the depth or HET precondition gets nothing.  (Stated for        *)
(* parents that have reads at the site, so that b_d and b_m exist.)        *)

C10_Expected(a) ==
    LET rk == a.kid[1]
        ak == a.kid[2]
        tk == rk + ak
        td == a.dad[1] + a.dad[2]
        tm == a.mom[1] + a.mom[2]
        bsum == a.dad[2] * tm + a.mom[2] * td     \* (b_d + b_m) * td * tm
    IN  IF ~(a.kid_gt = HET /\ rk > 2 /\ ak > 2 /\ tk >= MIN_DEPTH) THEN "None"
        ELSE IF (bsum < td * tm /\ 2 * ak > tk) \/ (bsum > td * tm /\ 2 * ak < tk)
             THEN "None"
        ELSE IF 100 * ak >= 67 * tk THEN "alt_parent"
        ELSE IF 100 * ak <= 33 * tk THEN "ref_parent"
        ELSE "None"

C10_DupKidAllele ==
    (/\ fn_out # <<>>
     /\ fn_in.vartype = "DUP"
     /\ fn_in.dad[1] + fn_in.dad[2] > 0
     /\ fn_in.mom[1] + fn_in.mom[2] > 0)
    => fn_out[1] = C10_Expected(fn_in)

-----------------------------------------------------------------------------
(* Claims about the read collector.                                        *)

\* grouped_readsets has been made (line 181)
sets_made == DOMAIN grouped_readsets = {"alt", "ref"}

names_of(reads) == {reads[i].query_name : i \in DOMAIN reads}

seed_names == names_of(informative_reads.alt)

\* C4: in every state of the closure (the seeds put in by
\* group_reads_by_haplotype, then connect_reads) no read name is in both
\* the alt and the ref set, and in every step a name that is in one of the
\* sets stays in it (so it never leaves it and never enters the other).
C4_AssignedOnce ==
    /\ [](sets_made => grouped_readsets.alt \cap grouped_readsets.ref = {})
    /\ [][ sets_made =>
             /\ grouped_readsets.alt \subseteq grouped_readsets'.alt
             /\ grouped_readsets.ref \subseteq grouped_readsets'.ref ]_vars

\* the closure has put a read in ref and a read that is no seed in alt, and a
\* later call of connect_reads has met reads that were assigned already
C4_Witness ==
    /\ sets_made /\ rc_pc = "connect" /\ bam_iter = <<>>
    /\ grouped_readsets.ref # {}
    /\ grouped_readsets.alt \ seed_names # {}
    /\ new_reads.ref # <<>>
    /\ Len(reads_to_add.alt) + Len(reads_to_add.ref) = 0

\* the seed names whose every mate lookup (line 190) raised ValueError
mate_lookup_failed(name) ==
    /\ name \in seed_names
    /\ \A i \in DOMAIN informative_reads.alt :
           informative_reads.alt[i].query_name = name
               => ~has_mate(informative_reads.alt[i])

assigned_names == grouped_readsets.alt \cup grouped_readsets.ref

group_finished == rc_pc = "returned" /\ sets_made

\* C5 (as the code has it): when group_reads_by_haplotype finishes, every
\* read name in the alt or the ref set is a key of fetched_reads, except a
\* seed whose mate lookup raised ValueError and that the het-site index did
\* not fetch under the same name; such a seed is in the alt set only, and
\* the returned lists hold exactly the assigned names that are keys of
\* fetched_reads.
C5_FetchedUnlessMateFailed ==
    group_finished =>
        /\ \A name \in assigned_names :
               dict_has(fetched_reads, name) \/ mate_lookup_failed(name)
        /\ \A name \in grouped_readsets.ref : dict_has(fetched_reads, name)
        /\ names_of(rc_out.alt) =
               {name \in grouped_readsets.alt : dict_has(fetched_reads, name)}
        /\ names_of(rc_out.ref) = grouped_readsets.ref

\* a seed whose mate lookup raised is in the alt set without an entry of
\* fetched_reads, next to reads the closure assigned
C5_Witness ==
    /\ group_finished
    /\ \E name \in grouped_readsets.alt :
           mate_lookup_failed(name) /\ ~dict_has(fetched_reads, name)
    /\ grouped_readsets.ref # {}
    /\ rc_out.alt # <<>>

\* C5 as stated: when group_reads_by_haplotype finishes, every read name in
\* the alt or the ref set is a key of fetched_reads, whatever the mate
\* lookup of a seed did.
C5_AllFetched ==
    group_finished => \A name \in assigned_names : dict_has(fetched_reads, name)

\* the alignments collect_reads_snv fetches around the position, in file
\* order (the window of the second fetch is one position narrower)
C6_Fetched ==
    IF rc_in.region.chrom = bam.chrom
    THEN fetch(rc_in.region.start - 1, rc_in.region.start + 1)
    ELSE fetch(rc_in.region.start, rc_in.region.start + 1)

\* the fetched alignments of good pairs, of at most five clipped bases each,
\* that carry the allele at the position of the SNV, each with its mate
C6_Carriers(allele) ==
    LET carries(r) ==
            /\ goodread(r) /\ has_mate(r) /\ goodread(bamfile_mate(r))
            /\ count_none(r.ref_positions) <= 5
            /\ count_none(bamfile_mate(r).ref_positions) <= 5
            /\ get_allele_at(r, bamfile_mate(r), rc_in.region.start) = allele
        found == SelectSeq(C6_Fetched, carries)
    IN  concat([i \in DOMAIN found |-> <<found[i], bamfile_mate(found[i])>>])

\* no step of group_reads_by_haplotype was taken
C6_NoClosure ==
    /\ ~sets_made
    /\ fetched_reads = <<>> /\ read_sites = <<>> /\ site_reads = <<>>

C6_ReturnedUnextended(kind) ==
    rc_pc = "returned" /\ rc_in.kind = kind /\ rc_in.no_extended

\* C6 (as the code has it): with no_extended = true no closure is run;
\* collect_reads_sv returns the supporting reads it collected as alt and an
\* empty ref; collect_reads_snv returns as alt the pairs that carry the alt
\* allele at the position and as ref the pairs that carry the ref allele.
C6_NoExtended ==
    /\ C6_ReturnedUnextended("sv") =>
           /\ rc_out.alt = informative_reads.alt
           /\ rc_out.ref = <<>>
           /\ C6_NoClosure
    /\ C6_ReturnedUnextended("snv") =>
           /\ rc_out.alt = C6_Carriers(rc_in.alt)
           /\ rc_out.ref = C6_Carriers(rc_in.ref)
           /\ C6_NoClosure

\* collect_reads_snv has returned, without a closure, pairs that carry the
\* alt allele and pairs that carry the ref allele
C6_Witness ==
    /\ C6_ReturnedUnextended("snv")
    /\ rc_out.alt # <<>> /\ rc_out.ref # <<>>

\* C6 as stated: with no_extended = true, collect_reads_snv and
\* collect_reads_sv each return the seed reads that support the de novo
\* variant as alt and an empty ref, and run no closure.
C6_SeedsAndEmptyRef ==
    (C6_ReturnedUnextended("sv") \/ C6_ReturnedUnextended("snv")) =>
        /\ rc_out.alt = informative_reads.alt
        /\ rc_out.ref = <<>>
        /\ C6_NoClosure

-----------------------------------------------------------------------------
(* C11.  In every DNM the finder returns (either path) that carries        *)
(* candidate_sites or het_sites, each of the two lists is in ascending     *)
(* order of pos, whatever order the variants were streamed in.             *)

ascending(sites) ==
    \A i, j \in DOMAIN sites : i < j => sites[i].pos <= sites[j].pos

C11_ListsOf(ds) ==
    \A k \in DOMAIN ds :
        ds[k].keys # {} => ascending(ds[k].candidate_sites) /\ ascending(ds[k].het_sites)

C11_SortedLists ==
    /\ find_status = "returned" => C11_ListsOf(find_dnms)
    /\ fm_status = "returned" => C11_ListsOf(dnms_annotated)

\* both paths have returned; the loop of find has filled the lists of a DNM
\* from its two windows, and in find_many the chromosome was scanned once
\* for each of its two names, one scan after the other, so that a DNM got
\* the sites of the second scan appended after those of the first
C11_Witness ==
    /\ both_returned /\ threads = 1
    /\ \E k \in DOMAIN find_dnms :
           /\ find_dnms[k].end - find_dnms[k].start > search_dist
           /\ Len(find_dnms[k].candidate_sites) >= 2
    /\ \E k \in DOMAIN dnms_annotated :
           /\ ~no_position_twice(dnms_annotated[k].candidate_sites)
           /\ ~no_position_twice(dnms_annotated[k].het_sites)
           /\ Cardinality(positions(dnms_annotated[k].candidate_sites)) >= 2

-----------------------------------------------------------------------------
(* C12.  For every finite set of seed reads, het sites and fetched read    *)
(* pairs, the closure of connect_reads reaches a call that assigns no new  *)
(* read and stops, and each read name is queued as newly assigned          *)
(* (appended to reads_to_add) at most once over the whole run.             *)

\* how often reads_to_add (all of its lists) names the read
times_queued(to_add, name) ==
    Cardinality({i \in DOMAIN to_add.alt : to_add.alt[i][1] = name})
    + Cardinality({i \in DOMAIN to_add.ref : to_add.ref[i][1] = name})

\* a step of connect_reads queues a read name at most once, and only a name
\* that was in neither set before the step and is in one after it; with the
\* sets only growing (C4) no name is queued a second time
C12_QueuedOnce ==
    [][ (rc_pc = "connect" /\ bam_iter # <<>>) =>
          \A name \in names_of(bam.reads) :
              LET before == times_queued(reads_to_add, name)
                  after  == times_queued(reads_to_add', name)
              IN  /\ after <= before + 1
                  /\ after = before + 1 =>
                         /\ name \notin assigned_names
                         /\ name \in grouped_readsets'.alt \cup grouped_readsets'.ref ]_vars

\* the call of connect_reads that adds nothing is reached and
\* group_reads_by_haplotype returns
C12_QuietCall == <>(rc_pc = "returned")

C12_ClosureStops == C12_QuietCall /\ C12_QueuedOnce

\* what the code does have: the run ends, with the quiet call or with the
\* KeyError of line 98
C12_StopsOrRaises == <>(rc_pc \in {"returned", "raised"})

-----------------------------------------------------------------------------
(* C13.  When find_many runs with threads # 1, in every interleaving of    *)
(* the workers no two workers append to the candidate_sites or het_sites   *)
(* of the same DNM, whatever the DNM list (lists that name a chromosome    *)
(* with and without the chr prefix included).                              *)

\* the variants the worker of chrom has been through
scanned_by(chrom) ==
    LET stream == worker_stream(chrom, dict_get(chrom_ranges, chrom), search_dist)
    IN  SubSeq(stream, 1, Len(stream) - Len(workers[chrom].iter))

\* the DNMs, counted in the order of all_denovos, that the scan of variant v
\* appends a site to
appended_for(v) ==
    LET before == create_lookups(dnms, pedigrees, build).vars_by_sample
        after  == all_denovos(scan_variant(v, samples_by_location, before,
                                           search_dist, whole_region, build).vars_by_sample)
    IN  {j \in DOMAIN after :
            Len(after[j].candidate_sites) + Len(after[j].het_sites) > 0}

appended_by(chrom) ==
    UNION {appended_for(scanned_by(chrom)[i]) : i \in DOMAIN scanned_by(chrom)}

C13_OneWriterPerDnm ==
    (threads # 1 /\ fm_status \in {"scan", "returned"}) =>
        \A c1, c2 \in DOMAIN workers :
            c1 # c2 => appended_by(c1) \cap appended_by(c2) = {}

-----------------------------------------------------------------------------
(* C14.  When the scan of a chromosome fails inside find_many, the failure *)
(* reaches the caller of find_many: find_many does not return a DNM list,  *)
(* with threads = 1 and with threads # 1.                                  *)

failed_workers == {c \in DOMAIN workers : workers[c].status = "raised"}

C14_FailureReachesCaller == failed_workers # {} => fm_status # "returned"

\* what the code does with threads = 1: the exception leaves find_many
C14_SerialFailureRaises ==
    (threads = 1 /\ failed_workers # {}) => fm_status = "raised"

-----------------------------------------------------------------------------
(* C15.  For every setting of min_depth and every pair of depths of a      *)
(* sample (a kid or a parent with ref_depth + alt_depth = 0 included), no  *)
(* allele balance computed in is_high_quality_site or in get_kid_allele    *)
(* has a zero denominator.                                                 *)

C15_NoZeroDivision == fn_out # <<"ZeroDivisionError">>

\* with the default min_depth the division of is_high_quality_site is
\* guarded, that of get_kid_allele for a parent is not
C15_DefaultGuardsQuality ==
    (MIN_DEPTH = 10 /\ fn_out = <<"ZeroDivisionError">>) =>
        /\ fn_in.vartype = "DUP"
        /\ 0 \in {fn_in.dad[1] + fn_in.dad[2], fn_in.mom[1] + fn_in.mom[2]}

-----------------------------------------------------------------------------
(* C16.  In collect_reads_sv a read that passes goodread, with a mate that *)
(* passes goodread, is added with its mate to the supporting reads if and  *)
(* only if it meets at least one of the three criteria: split alignment    *)
(* (SA tag, reference_start or reference_end within 5 of the breakpoint),  *)
(* discordant pair (insert size above the concordant length, ratio of the  *)
(* SV length to it between 0.7 and 1.3, mates near the two ends), or a     *)
(* soft clip at the breakpoint; one criterion is enough whatever the other *)
(* two say.                                                                *)

sv_position == IF rc_pc = "sv_scan_start" THEN rc_in.region.start ELSE rc_in.region.end

meets_split(read, position) == read.has_SA /\ splitter_near(read, position)

meets_discordant(read, mate) == discordant(read) /\ near_breakpoints(read, mate)

meets_clip(read, position) == clipped_at(read, position)

\* the alignment of this turn of the loop, with a mate, both good
good_pair_turn ==
    /\ rc_pc \in {"sv_scan_start", "sv_scan_end"} /\ bam_iter # <<>>
    /\ goodread(Head(bam_iter)) /\ has_mate(Head(bam_iter))
    /\ goodread(bamfile_mate(Head(bam_iter)))

added_this_turn ==
    Len(informative_reads'.alt) = Len(informative_reads.alt) + 2

C16_AnyCriterion ==
    [][ good_pair_turn =>
          LET read == Head(bam_iter)
              mate == bamfile_mate(read)
          IN  added_this_turn <=>
                  \/ meets_split(read, sv_position)
                  \/ meets_discordant(read, mate)
                  \/ meets_clip(read, sv_position) ]_vars

\* what the chain of lines 331-379 does: a read with an SA tag is tested as
\* a split read only, a read without one whose insert size passes line 339
\* as a discordant pair only, and the others for the clip
C16_FirstCriterionDecides ==
    [][ good_pair_turn =>
          LET read == Head(bam_iter)
              mate == bamfile_mate(read)
          IN  added_this_turn <=>
                  IF read.has_SA THEN meets_split(read, sv_position)
                  ELSE IF discordant(read) THEN meets_discordant(read, mate)
                  ELSE meets_clip(read, sv_position) ]_vars

-----------------------------------------------------------------------------
(* C17.  In the batch path with whole_region = true, for every index built *)
(* by create_lookups (DNMs of any length, end - start > 2 included) and    *)
(* every variant position pos, get_close_vars completes and returns a key  *)
(* for DNM D exactly when D.start - S <= pos <= D.end + S.                 *)

\* get_close_vars for the variant v on the index as create_lookups built it
close_vars_of(v) ==
    LET lk == create_lookups(dnms, pedigrees, build)
    IN  get_close_vars(v.CHROM, v.POS, lk.samples_by_location, lk.vars_by_sample,
                       search_dist, TRUE)

key_of(denovo) == <<denovo.kid, denovo.chrom, denovo.start>>

\* the DNMs of the index filed under the key of dnms[k] that lie within
\* search_dist of pos
near_in_slot(k, pos) ==
    {j \in DOMAIN dnms :
        /\ ~autophaseable(dnms[j], pedigrees, build)
        /\ key_of(dnms[j]) = key_of(dnms[k])
        /\ dnms[j].start - search_dist <= pos
        /\ pos <= dnms[j].end + search_dist}

\* the call completes and holds the key of a DNM once for each DNM of that
\* key that is in range, so not at all for a key with none
C17_KeysOf(v) ==
    /\ ~close_vars_of(v).raised
    /\ \A k \in DOMAIN dnms :
          (~autophaseable(dnms[k], pedigrees, build) /\ dnms[k].chrom = v.CHROM) =>
              Cardinality({i \in DOMAIN close_vars_of(v).keys :
                              close_vars_of(v).keys[i] = key_of(dnms[k])})
                  = Cardinality(near_in_slot(k, v.POS))

C17_WholeRegionKeys ==
    (whole_region /\ fm_status = "scan") =>
        \A i \in DOMAIN vcf.variants : C17_KeysOf(vcf.variants[i])

\* without a DNM longer than 2 on the list the index has no end key, and
\* without two DNMs of one kid at one start no sample is listed twice at a
\* position: then the statement holds
C17_ShortEventsKeys ==
    (/\ whole_region /\ fm_status = "scan"
     /\ \A k \in DOMAIN dnms : dnms[k].end - dnms[k].start <= 2
     /\ \A j, k \in DOMAIN dnms : key_of(dnms[j]) = key_of(dnms[k]) => j = k) =>
        \A i \in DOMAIN vcf.variants : C17_KeysOf(vcf.variants[i])

-----------------------------------------------------------------------------
(* C18.  In each closure step of connect_reads, for an already assigned    *)
(* read whose allele at a het site is one of the site's two alleles, every *)
(* still unassigned read registered at that site is assigned to the same   *)
(* haplotype when its allele at the site equals the assigned read's, to    *)
(* the other haplotype when it equals the site's other allele, and stays   *)
(* unassigned when its allele is unavailable or is neither allele.         *)

\* the step works through the entry <<haplotype, readname, found_pos>> at
\* the head of the list and ends without an exception
closure_step == rc_pc = "connect" /\ bam_iter # <<>> /\ rc_pc' = "connect"

\* the sites of the assigned read of the step, in the order they are walked
step_sites ==
    IF dict_has(read_sites, Head(bam_iter)[2])
    THEN dict_get(read_sites, Head(bam_iter)[2]) ELSE <<>>

allele_of(name, site) ==
    get_allele_at(dict_get(fetched_reads, name)[1], dict_get(fetched_reads, name)[2],
                  site.pos)

\* the site is used: it is not where the assigned read was found, and the
\* assigned read carries one of its two alleles
site_used(site) ==
    /\ site.pos # Head(bam_iter)[3]
    /\ allele_of(Head(bam_iter)[2], site) # NoAllele
    /\ allele_of(Head(bam_iter)[2], site) \in {site.ref_allele, site.alt_allele}

\* what the site says about a read registered there: "same", "other", or
\* "none" when its allele is unavailable or is neither allele
verdict(name, site) ==
    IF ~dict_has(site_reads, site.pos) THEN "none"
    ELSE IF name \notin Range(dict_get(site_reads, site.pos)) THEN "none"
    ELSE IF allele_of(name, site) = NoAllele THEN "none"
    ELSE IF allele_of(name, site) = allele_of(Head(bam_iter)[2], site) THEN "same"
    ELSE IF allele_of(name, site) \in {site.ref_allele, site.alt_allele} THEN "other"
    ELSE "none"

\* the sites of the step that decide about the read
deciding(name) ==
    {i \in DOMAIN step_sites :
        site_used(step_sites[i]) /\ verdict(name, step_sites[i]) # "none"}

C18_ClosureRule ==
    [][ closure_step =>
          \A name \in names_of(bam.reads) \ assigned_names :
              IF deciding(name) = {}
              THEN name \notin grouped_readsets'.alt \cup grouped_readsets'.ref
              ELSE LET first == CHOOSE i \in deciding(name) :
                                    \A j \in deciding(name) : i <= j
                       haplotype == Head(bam_iter)[1]
                   IN  IF verdict(name, step_sites[first]) = "same"
                       THEN name \in grouped_readsets'[haplotype]
                       ELSE /\ name \in grouped_readsets'.alt \cup grouped_readsets'.ref
                            /\ name \notin grouped_readsets'[haplotype] ]_vars

\* a call of connect_reads that began with the seeds has come to its end:
\* it has assigned a read to the haplotype of the seed that found it and a
\* read to the other one
C18_Witness ==
    /\ sets_made /\ rc_pc = "connect" /\ bam_iter = <<>>
    /\ new_reads.ref = <<>>
    /\ Len(reads_to_add.alt) > 0 /\ Len(reads_to_add.ref) > 0

\* the third case: the run is over and a read registered at a site together
\* with an assigned read, carrying neither allele there, is in neither set
C18_LeftUnassigned ==
    /\ group_finished
    /\ \E i \in DOMAIN site_reads :
           \E name \in Range(site_reads[i].val) \ assigned_names :
              /\ allele_of(name, het_at(site_reads[i].key)) \notin {NoAllele, "A", "G"}
              /\ Range(site_reads[i].val) \cap assigned_names # {}

-----------------------------------------------------------------------------
(* C19.  After the seeds are injected in group_reads_by_haplotype, for     *)
(* every seed r whose mate is found and every het site h with position in  *)
(* [r.reference_start, r.reference_end], h is in read_sites[r] and r is in *)
(* site_reads[h.pos]; so every site listed in read_sites has an entry in   *)
(* site_reads when the closure looks it up.                                *)

\* the loop of the seeds is over
seeds_injected ==
    \/ rc_pc = "seed" /\ bam_iter = <<>>
    \/ sets_made /\ rc_pc \in {"connect", "returned", "raised"}

seed_registered(r, h) ==
    /\ dict_has(read_sites, r.query_name)
    /\ h \in Range(dict_get(read_sites, r.query_name))
    /\ dict_has(site_reads, h.pos)
    /\ r.query_name \in Range(dict_get(site_reads, h.pos))

C19_SeedsRegistered ==
    seeds_injected =>
        /\ \A i \in DOMAIN informative_reads.alt :
               LET r == informative_reads.alt[i]
               IN  has_mate(r) =>
                       \A h \in Range(rc_in.het_sites) :
                           (r.reference_start <= h.pos /\ h.pos <= r.reference_end)
                               => seed_registered(r, h)
        /\ \A i \in DOMAIN read_sites :
               \A h \in Range(read_sites[i].val) : dict_has(site_reads, h.pos)
        /\ ~(rc_pc = "raised" /\ rc_out = "KeyError")

\* what the code has: each seed with a mate has its sites in read_sites,
\* and is listed in site_reads under the last het site of the index loop
C19_RegisteredUnderLastSite ==
    seeds_injected =>
        \A i \in DOMAIN informative_reads.alt :
            LET r == informative_reads.alt[i]
                matches == binary_search(r.reference_start, r.reference_end,
                                         rc_in.het_sites)
            IN  (has_mate(r) /\ matches # <<>>) =>
                    /\ Range(matches) \subseteq Range(dict_get(read_sites, r.query_name))
                    /\ r.query_name \in
                           Range(dict_get(site_reads,
                                          rc_in.het_sites[Len(rc_in.het_sites)].pos))

-----------------------------------------------------------------------------
(* C20.  Every read pair that the index of the het sites in                *)
(* group_reads_by_haplotype (lines 154-180) registers in read_sites,       *)
(* site_reads and fetched_reads has both mates passing goodread and has    *)
(* reference intervals [reference_start, reference_end] that do not        *)
(* intersect, one mate's interval lying inside the other's included.       *)

\* the names the index has registered; the loop of the seeds has not begun
indexed_names ==
    Range(dict_keys(fetched_reads)) \cup Range(dict_keys(read_sites))
        \cup UNION {Range(site_reads[i].val) : i \in DOMAIN site_reads}

intervals_apart(read, mate) ==
    read.reference_end < mate.reference_start \/ mate.reference_end < read.reference_start

C20_RegisteredPairsApart ==
    rc_pc = "index" =>
        \A name \in indexed_names :
            /\ dict_has(fetched_reads, name)
            /\ LET pair == dict_get(fetched_reads, name)
               IN  /\ goodread(pair[1]) /\ goodread(pair[2])
                   /\ intervals_apart(pair[1], pair[2])

\* what the test of lines 165-168 gives: both mates pass goodread, and
\* neither end of the fetched read lies in the interval of its mate
C20_EndsOutsideMate ==
    rc_pc = "index" =>
        \A name \in indexed_names :
            /\ dict_has(fetched_reads, name)
            /\ LET read == dict_get(fetched_reads, name)[1]
                   mate == dict_get(fetched_reads, name)[2]
               IN  /\ goodread(read) /\ goodread(mate)
                   /\ ~(mate.reference_start <= read.reference_start
                        /\ read.reference_start <= mate.reference_end)
                   /\ ~(mate.reference_start <= read.reference_end
                        /\ read.reference_end <= mate.reference_end)

-----------------------------------------------------------------------------
(* C21.  In the per-DNM path with whole_region = false each callset        *)
(* variant is evaluated at most once per DNM, so no variant appears twice  *)
(* in the DNM's candidate_sites or het_sites, for every search distance S  *)
(* and every DNM length, S < end - start <= 2S included, where the window  *)
(* of the start and the window of the end share positions.                 *)

\* the two windows of get_position share a position
windows_meet(d) ==
    /\ d.end - d.start > search_dist
    /\ d.end - search_dist <= d.start + search_dist

C21_NoVariantTwice ==
    (~whole_region /\ find_status = "returned") =>
        \A k \in DOMAIN find_dnms :
            /\ no_position_twice(find_dnms[k].candidate_sites)
            /\ no_position_twice(find_dnms[k].het_sites)

\* what the code has: a DNM shorter than 20 loses the shared positions to
\* the small-event rule, and a DNM whose windows do not meet has none
C21_OnceUnlessLongAndMeeting ==
    (~whole_region /\ find_status = "returned") =>
        \A k \in DOMAIN find_dnms :
            (find_dnms[k].end - find_dnms[k].start < 20 \/ ~windows_meet(find_dnms[k])) =>
                /\ no_position_twice(find_dnms[k].candidate_sites)
                /\ no_position_twice(find_dnms[k].het_sites)

=============================================================================
